---- MODULE Spec2Model ----
(***************************************************************************)
(* Storm-tracking core of GewitterGefahr (gg_utils/gridrad_tracking.py).   *)
(*                                                                         *)
(* Each component of the tracker is a function over in-memory records.     *)
(* Every component has its own specification: the initial states draw the  *)
(* function's arguments from bounded sets and the actions apply the        *)
(* function, one action per return path of the code.                       *)
(*                                                                         *)
(*   SpecLink   _link_local_maxima_in_time                                  *)
(*   SpecDedup  _remove_redundant_local_maxima                              *)
(*   SpecTrack  _local_maxima_to_storm_tracks (with _create_storm_id),      *)
(*              followed by _remove_short_tracks                            *)
(*   SpecTrackAnyLinks  _local_maxima_to_storm_tracks with link arrays that   *)
(*              the linker would not give                                   *)
(*   SpecRun    run_tracking: argument checks and reading of radar files    *)
(*   SpecFind   _find_local_maxima                                          *)
(*   SpecReanalysis  echo_top_tracking._reanalyze_tracks (with              *)
(*              _storm_objects_to_tracks and _find_nearby_tracks), whose    *)
(*              code is not in the repository snapshot: modelled from the   *)
(*              specification and from echo_top_tracking_test.py            *)
(*   SpecTrackingRun  run_tracking as a whole: _find_input_radar_files, the  *)
(*              loop that links each snapshot with the one before, and the  *)
(*              assembly of the tracks                                      *)
(*   SpecJoin   echo_top_tracking._join_tracks_between_periods, modelled    *)
(*              from the specification and from its unit test               *)
(*                                                                         *)
(* Array positions are 1-based here (TLA+ sequences); the VALUES stored in *)
(* current_to_previous_indices are the code's 0-based indices, with -1 for *)
(* "not linked".                                                           *)
(***************************************************************************)
EXTENDS Integers, Sequences, FiniteSets, TLC

(***************************************************************************)
(* Bounds of the model.                                                    *)
(***************************************************************************)
\* Largest number of local maxima in a snapshot given to the linker.
MaxMaxima == 2
\* Largest number of local maxima given to _remove_redundant_local_maxima.
MaxRawMaxima == 4
\* Largest number of time steps given to _local_maxima_to_storm_tracks.
MaxTimes == 3
\* Largest number of radar files that run_tracking finds.
MaxRunTimes == 2
\* Latest valid time (seconds) of a storm object given to _reanalyze_tracks.
MaxReanalysisTime == 3
\* Largest number of SPC dates in the period given to _find_input_radar_files.
MaxSpcDates == 2

VARIABLES
    \* ---- _link_local_maxima_in_time: arguments
    current_local_max_dict,
    previous_local_max_dict,
    max_link_time_seconds,
    max_link_distance_m_s01,
    \* ---- _link_local_maxima_in_time: locals and result
    link_pc,                      \* "call", "returned" or "raised"
    best_prev_indices,            \* current_to_previous_indices after the first loop (line 295)
    current_to_previous_indices,  \* the returned array (line 312)
    \* ---- _remove_redundant_local_maxima: arguments
    local_max_dict_latlng,
    min_distance_between_maxima_metres,
    \* ---- _remove_redundant_local_maxima: locals and result
    dedup_pc,                     \* "call" or "returned"
    keep_max_indices,             \* line 224 (0-based indices, ascending)
    local_max_dictionary,         \* the returned dictionary (lines 226-231)
    \* ---- _local_maxima_to_storm_tracks: argument and locals
    num_times,                    \* len(local_max_dict_by_time), line 495
    local_max_dict_by_time,       \* the snapshots handled so far, with their storm_ids
    prev_numeric_id_used,
    prev_spc_date_string,
    storm_object_table,           \* the rows collected so far; the result at the return
    track_pc,                     \* "loop", "returned", "raised" or "pruned"
    \* ---- _remove_short_tracks: argument and result
    min_duration_seconds,
    long_storm_object_table,      \* the returned table (line 589)
    \* ---- run_tracking: arguments and locals
    run_arguments,                \* the numeric keyword arguments
    unix_times_sec,               \* valid times of the radar files found (line 644)
    num_radar_files_read,         \* radar files read so far (lines 659-670)
    run_pc,                       \* "call", "loop", "returned" or "raised"
    \* ---- _find_local_maxima: arguments and result
    radar_matrix,
    neigh_half_width_in_pixels,
    find_pc,                      \* "call" or "returned"
    local_max_dict_found,         \* the returned dictionary (lines 176-178)
    \* ---- echo_top_tracking._reanalyze_tracks: arguments and locals
    this_storm_object_table,      \* the table of storm objects, relabelled in place
    storm_track_table,            \* one row per storm id (_storm_objects_to_tracks)
    max_join_time_sec,
    max_extrap_error_m_s01,
    reanalysis_pc,                \* "call", "loop" or "returned"
    num_reanalysis_passes,        \* calls of _reanalyze_tracks begun so far
    \* ---- what the caller of _reanalyze_tracks holds
    storm_object_table_before_reanalysis,  \* the table given to the first call
    storm_object_table_after_reanalysis,   \* the table returned by the first call
    \* ---- _find_input_radar_files: arguments and locals
    spc_date_file_names,          \* per SPC date, the files that find_raw_files_one_spc_date finds
    start_time_unix_sec,
    end_time_unix_sec,
    num_spc_dates_searched,       \* passes of the loop of lines 404-425 made so far
    file_dictionary,              \* radar_file_names and unix_times_sec; the result at the return
    files_pc,                     \* "call", "loop", "returned" or "raised"
    \* ---- run_tracking: the snapshots with their links (lines 653-708)
    run_local_max_dict_by_time,
    \* ---- echo_top_tracking._join_tracks_between_periods: arguments and result
    early_storm_object_table,
    late_storm_object_table,
    join_arguments,               \* max_link_time_seconds and max_link_distance_m_s01
    join_pc,                      \* "call" or "returned"
    joined_storm_object_table     \* the late table as returned

linkVars == <<current_local_max_dict, previous_local_max_dict,
              max_link_time_seconds, max_link_distance_m_s01,
              link_pc, best_prev_indices, current_to_previous_indices>>

dedupVars == <<local_max_dict_latlng, min_distance_between_maxima_metres,
               dedup_pc, keep_max_indices, local_max_dictionary>>

trackVars == <<num_times, local_max_dict_by_time, prev_numeric_id_used,
               prev_spc_date_string, storm_object_table, track_pc,
               min_duration_seconds, long_storm_object_table>>

runVars == <<run_arguments, unix_times_sec, num_radar_files_read, run_pc>>

\* The variables of the functions that are modelled after the linker, the
\* deduplicator and the assembler.
findVars == <<radar_matrix, neigh_half_width_in_pixels, find_pc,
              local_max_dict_found>>

reanalysisVars == <<this_storm_object_table, storm_track_table,
                    max_join_time_sec, max_extrap_error_m_s01,
                    reanalysis_pc, num_reanalysis_passes,
                    storm_object_table_before_reanalysis,
                    storm_object_table_after_reanalysis>>

trackingRunVars == <<spc_date_file_names, start_time_unix_sec,
                     end_time_unix_sec, num_spc_dates_searched,
                     file_dictionary, files_pc, run_local_max_dict_by_time>>

joinVars == <<early_storm_object_table, late_storm_object_table,
              join_arguments, join_pc, joined_storm_object_table>>

laterVars == <<runVars, findVars, reanalysisVars, trackingRunVars, joinVars>>

vars == <<linkVars, dedupVars, trackVars, laterVars>>

\* The variables of run_tracking while another function is under check.
RunIdle ==
    /\ run_arguments = <<>>
    /\ unix_times_sec = <<>>
    /\ num_radar_files_read = 0
    /\ run_pc = "idle"

\* The variables of _find_local_maxima while another function is under check.
FindIdle ==
    /\ radar_matrix = <<>>
    /\ neigh_half_width_in_pixels = 0
    /\ find_pc = "idle"
    /\ local_max_dict_found = <<>>

ReanalysisIdle ==
    /\ this_storm_object_table = <<>>
    /\ storm_track_table = <<>>
    /\ max_join_time_sec = 0
    /\ max_extrap_error_m_s01 = 0
    /\ reanalysis_pc = "idle"
    /\ num_reanalysis_passes = 0
    /\ storm_object_table_before_reanalysis = <<>>
    /\ storm_object_table_after_reanalysis = <<>>

\* The variables of _find_input_radar_files and of the loop of run_tracking
\* while another function is under check.
TrackingRunIdle ==
    /\ spc_date_file_names = <<>>
    /\ start_time_unix_sec = 0
    /\ end_time_unix_sec = 0
    /\ num_spc_dates_searched = 0
    /\ file_dictionary = <<>>
    /\ files_pc = "idle"
    /\ run_local_max_dict_by_time = <<>>

\* The variables of _join_tracks_between_periods while another function is
\* under check.
JoinIdle ==
    /\ early_storm_object_table = <<>>
    /\ late_storm_object_table = <<>>
    /\ join_arguments = <<>>
    /\ join_pc = "idle"
    /\ joined_storm_object_table = <<>>

LaterIdle ==
    RunIdle /\ FindIdle /\ ReanalysisIdle /\ TrackingRunIdle /\ JoinIdle

(***************************************************************************)
(* Generic helpers.                                                        *)
(***************************************************************************)
Square(a) == a * a

\* numpy.full(n, v)
Full(n, v) == [i \in 1..n |-> v]

(***************************************************************************)
(* _link_local_maxima_in_time                                              *)
(***************************************************************************)
\* previous_local_max_dict = None (the first time step)
None == [is_none |-> TRUE]

LocalMaxDict(xs, ys, t) ==
    [x_coords_metres |-> xs, y_coords_metres |-> ys, unix_time_sec |-> t]

\* Squared distance between the [i]th current and the [k]th previous maximum
\* (the radicand of lines 282-286).
DistanceSq(cur, prev, i, k) ==
    Square(cur.x_coords_metres[i] - prev.x_coords_metres[k])
        + Square(cur.y_coords_metres[i] - prev.y_coords_metres[k])

\* Line 288 divides the distances by time_diff_seconds, which the code never
\* checks to be positive.  The quotient sqrt(d2) / dt is represented by the
\* pair (d2, dt); within one call dt is the same for all quotients.  Its
\* IEEE-754 value is  sqrt(d2)/dt >= 0 for dt > 0,  -sqrt(d2)/|dt| <= 0 for
\* dt < 0,  and for dt = 0: +inf when d2 > 0 and NaN when d2 = 0 (numpy warns,
\* it does not raise).  SpeedOrderKey orders the quotients of one call as
\* numpy.min / numpy.argmin do: NaN counts as the smallest.
SpeedOrderKey(d2, dt) ==
    IF dt > 0 THEN d2
    ELSE IF dt < 0 THEN -d2
    ELSE IF d2 = 0 THEN -1 ELSE 0

\* Line 290 with ">=" in place of ">".
SpeedExceedsOrEquals(d2, dt, limit) ==
    IF dt > 0 THEN limit < 0 \/ d2 >= Square(limit * dt)
    ELSE IF dt < 0 THEN limit < 0 /\ d2 <= Square(limit * dt)
    ELSE d2 > 0

\* this_min_distance_m_s01 > max_link_distance_m_s01 (line 290), for the
\* quotient (d2, dt).  NaN > limit is false.
SpeedExceeds(d2, dt, limit) ==
    IF dt > 0 THEN limit < 0 \/ d2 > Square(limit * dt)
    ELSE IF dt < 0 THEN limit < 0 /\ d2 < Square(limit * dt)
    ELSE d2 > 0

\* numpy.argmin over a non-empty array of order keys: the first position that
\* holds the minimum.
ArgMin(keys) ==
    CHOOSE k \in DOMAIN keys :
        /\ \A m \in DOMAIN keys : keys[k] <= keys[m]
        /\ \A m \in DOMAIN keys : m < k => keys[m] > keys[k]

\* The early-return test of lines 274-275 without the test for an empty
\* previous snapshot.
ReturnsEarlyIgnoringPrevious(num_current_maxima, num_previous_maxima, time_diff_seconds, max_time) ==
    num_current_maxima = 0 \/ time_diff_seconds > max_time

\* The early-return test of lines 274-275 with ">=" in place of ">".
ReturnsEarlyAtLimit(num_current_maxima, num_previous_maxima, time_diff_seconds, max_time) ==
    num_current_maxima = 0 \/ num_previous_maxima = 0
        \/ time_diff_seconds >= max_time

\* The early-return test of lines 274-275.
ReturnsEarly(num_current_maxima, num_previous_maxima, time_diff_seconds, max_time) ==
    num_current_maxima = 0 \/ num_previous_maxima = 0
        \/ time_diff_seconds > max_time

\* Order keys of these_distances_m_s01 for the [i]th current maximum (line 288).
TheseDistanceKeys(cur, prev, i) ==
    [k \in 1..Len(prev.x_coords_metres) |->
        SpeedOrderKey(DistanceSq(cur, prev, i, k),
                      cur.unix_time_sec - prev.unix_time_sec)]

\* One iteration of the first loop (lines 281-295): the 0-based index of the
\* previous maximum chosen for the [i]th current maximum, or -1.
BestPrevIndex(cur, prev, i, limit) ==
    LET k == ArgMin(TheseDistanceKeys(cur, prev, i))
    IN  IF SpeedExceeds(DistanceSq(cur, prev, i, k),
                        cur.unix_time_sec - prev.unix_time_sec, limit)
        THEN -1
        ELSE k - 1

\* current_to_previous_distances_m_s01 after the first loop (line 293), as
\* order keys; the entries of unlinked maxima (NaN in the code) are never read.
BestPrevDistanceKeys(cur, prev) ==
    [i \in 1..Len(cur.x_coords_metres) |->
        LET keys == TheseDistanceKeys(cur, prev, i) IN keys[ArgMin(keys)]]

\* The contender with the largest stored speed.
WorstCurrentIndex(these_current_indices, keys) ==
    CHOOSE i \in these_current_indices :
        /\ \A m \in these_current_indices : keys[i] >= keys[m]
        /\ \A m \in these_current_indices : m < i => keys[m] < keys[i]

\* this_best_current_index (lines 302-304): among the current maxima that chose
\* the same previous maximum, the first one with the smallest stored speed.
BestCurrentIndex(these_current_indices, keys) ==
    CHOOSE i \in these_current_indices :
        /\ \A m \in these_current_indices : keys[i] <= keys[m]
        /\ \A m \in these_current_indices : m < i => keys[m] > keys[i]

\* No contender is reset.
NoContendersReset(these_current_indices, keys) == {}

\* The contenders that lines 306-310 reset to -1.
ContendersReset(these_current_indices, keys) ==
    these_current_indices \ {BestCurrentIndex(these_current_indices, keys)}

\* The array of the first loop as it is: no conflict is resolved.
KeepConflicts(indices, keys, j, num_previous_maxima) == indices

\* The second loop (lines 297-310), from previous maximum j (0-based) on.
RECURSIVE ResolveConflicts(_, _, _, _)
ResolveConflicts(indices, keys, j, num_previous_maxima) ==
    IF j >= num_previous_maxima THEN indices
    ELSE LET these_current_indices == {i \in DOMAIN indices : indices[i] = j}
         IN  IF Cardinality(these_current_indices) < 2
             THEN ResolveConflicts(indices, keys, j + 1, num_previous_maxima)
             ELSE ResolveConflicts(
                     [i \in DOMAIN indices |->
                         IF i \in ContendersReset(these_current_indices, keys)
                         THEN -1 ELSE indices[i]],
                     keys, j + 1, num_previous_maxima)

NumCurrentMaxima == Len(current_local_max_dict.x_coords_metres)
NumPreviousMaxima == Len(previous_local_max_dict.x_coords_metres)
TimeDiffSeconds ==
    current_local_max_dict.unix_time_sec - previous_local_max_dict.unix_time_sec

\* Lines 264-267: there is no previous snapshot.
LinkNoPreviousDict ==
    /\ link_pc = "call"
    /\ previous_local_max_dict = None
    /\ best_prev_indices' = Full(NumCurrentMaxima, -1)
    /\ current_to_previous_indices' = Full(NumCurrentMaxima, -1)
    /\ link_pc' = "returned"
    /\ UNCHANGED <<current_local_max_dict, previous_local_max_dict,
                   max_link_time_seconds, max_link_distance_m_s01>>
    /\ UNCHANGED <<dedupVars, trackVars, laterVars>>

\* Lines 269-276: an empty snapshot, or the snapshots are too far apart in time.
LinkEarlyReturn ==
    /\ link_pc = "call"
    /\ previous_local_max_dict # None
    /\ ReturnsEarly(NumCurrentMaxima, NumPreviousMaxima, TimeDiffSeconds,
                    max_link_time_seconds)
    /\ best_prev_indices' = Full(NumCurrentMaxima, -1)
    /\ current_to_previous_indices' = Full(NumCurrentMaxima, -1)
    /\ link_pc' = "returned"
    /\ UNCHANGED <<current_local_max_dict, previous_local_max_dict,
                   max_link_time_seconds, max_link_distance_m_s01>>
    /\ UNCHANGED <<dedupVars, trackVars, laterVars>>

\* Lines 278-312: the two loops.  numpy.min of an empty array (line 289)
\* raises ValueError.
LinkLoops ==
    /\ link_pc = "call"
    /\ previous_local_max_dict # None
    /\ ~ReturnsEarly(NumCurrentMaxima, NumPreviousMaxima, TimeDiffSeconds,
                     max_link_time_seconds)
    /\ IF NumCurrentMaxima > 0 /\ NumPreviousMaxima = 0
       THEN /\ link_pc' = "raised"
            /\ UNCHANGED <<best_prev_indices, current_to_previous_indices>>
       ELSE /\ best_prev_indices' =
                [i \in 1..NumCurrentMaxima |->
                    BestPrevIndex(current_local_max_dict,
                                  previous_local_max_dict, i,
                                  max_link_distance_m_s01)]
            /\ current_to_previous_indices' =
                ResolveConflicts(
                    best_prev_indices',
                    BestPrevDistanceKeys(current_local_max_dict,
                                         previous_local_max_dict),
                    0, NumPreviousMaxima)
            /\ link_pc' = "returned"
    /\ UNCHANGED <<current_local_max_dict, previous_local_max_dict,
                   max_link_time_seconds, max_link_distance_m_s01>>
    /\ UNCHANGED <<dedupVars, trackVars, laterVars>>

(***************************************************************************)
(* _remove_redundant_local_maxima                                          *)
(***************************************************************************)
\* projections.project_latlng_to_xy with the azimuthal equidistant projection
\* centred at (35 deg N, 265 deg E).  Latitudes and longitudes are in
\* hundredths of a degree; near the centre 0.01 deg of latitude is 1111 m and
\* 0.01 deg of longitude is 911 m.
ProjectLatLngToXY(lat, lng) ==
    [x |-> 911 * (lng - 26500), y |-> 1111 * (lat - 3500)]

\* max_x_coords_metres / max_y_coords_metres (lines 207-211)
MaxXCoordsMetres(latlng) ==
    [i \in 1..Len(latlng.latitudes_deg) |->
        ProjectLatLngToXY(latlng.latitudes_deg[i], latlng.longitudes_deg[i]).x]
MaxYCoordsMetres(latlng) ==
    [i \in 1..Len(latlng.latitudes_deg) |->
        ProjectLatLngToXY(latlng.latitudes_deg[i], latlng.longitudes_deg[i]).y]

\* The comparison of line 222 applied to the squared distance itself.
TooCloseWithoutRoot(d2, min_distance) == d2 < min_distance

\* The comparison of line 222 with "<=" in place of "<".
TooCloseOrAtLimit(d2, min_distance) ==
    min_distance >= 0 /\ d2 <= Square(min_distance)

\* these_distances_metres < min_distance_between_maxima_metres (line 222), for
\* the distance sqrt(d2).
TooClose(d2, min_distance) ==
    min_distance > 0 /\ d2 < Square(min_distance)

\* Sequential thinning: a maximum that was dropped itself drops no other.
RECURSIVE GreedyKeepMaxFlags(_, _, _, _, _)
GreedyKeepMaxFlags(xs, ys, min_distance, i, flags) ==
    IF i > Len(xs) THEN flags
    ELSE GreedyKeepMaxFlags(xs, ys, min_distance, i + 1,
            [j \in DOMAIN flags |->
                IF /\ flags[i]
                   /\ j # i
                   /\ TooClose(Square(xs[j] - xs[i]) + Square(ys[j] - ys[i]),
                               min_distance)
                THEN FALSE ELSE flags[j]])

\* The loop of lines 216-222, from maximum i (1-based) on: iteration i clears
\* the flag of every other maximum nearer than the minimum distance
\* (these_distances_metres[i] is set to infinity).
RECURSIVE KeepMaxFlags(_, _, _, _, _)
KeepMaxFlags(xs, ys, min_distance, i, flags) ==
    IF i > Len(xs) THEN flags
    ELSE KeepMaxFlags(xs, ys, min_distance, i + 1,
            [j \in DOMAIN flags |->
                IF /\ j # i
                   /\ TooClose(Square(xs[j] - xs[i]) + Square(ys[j] - ys[i]),
                               min_distance)
                THEN FALSE ELSE flags[j]])

\* numpy.where(flags)[0]: the 0-based positions of the TRUE flags, ascending.
RECURSIVE WhereTrue(_, _)
WhereTrue(flags, i) ==
    IF i > Len(flags) THEN <<>>
    ELSE (IF flags[i] THEN <<i - 1>> ELSE <<>>) \o WhereTrue(flags, i + 1)

\* array[indices] for an array of 0-based indices.
TakeIndices(array, indices) == [m \in 1..Len(indices) |-> array[indices[m] + 1]]

RemoveRedundantLocalMaxima ==
    /\ dedup_pc = "call"
    /\ \E xs \in {MaxXCoordsMetres(local_max_dict_latlng)},
          ys \in {MaxYCoordsMetres(local_max_dict_latlng)} :
         \E keep \in {WhereTrue(
                          KeepMaxFlags(xs, ys,
                                       min_distance_between_maxima_metres,
                                       1, Full(Len(xs), TRUE)), 1)} :
           /\ keep_max_indices' = keep
           /\ local_max_dictionary' =
                [latitudes_deg |->
                     TakeIndices(local_max_dict_latlng.latitudes_deg, keep),
                 longitudes_deg |->
                     TakeIndices(local_max_dict_latlng.longitudes_deg, keep),
                 x_coords_metres |-> TakeIndices(xs, keep),
                 y_coords_metres |-> TakeIndices(ys, keep),
                 max_values |->
                     TakeIndices(local_max_dict_latlng.max_values, keep)]
    /\ dedup_pc' = "returned"
    /\ UNCHANGED <<local_max_dict_latlng, min_distance_between_maxima_metres>>
    /\ UNCHANGED <<linkVars, trackVars, laterVars>>

\* Arguments.  Latitudes and longitudes are grid points 0.01 deg apart; the
\* values come from _find_local_maxima, which sorts them in descending order.
DedupLatitudes == {3500, 3501}
DedupLongitudes == {26500, 26501, 26502}
DedupValues == {4, 6}
DedupMinDistances == {0, 911, 1000, 1111, 2000}

\* Arrays of n values in descending order.
DescendingValues(n) ==
    {v \in [1..n -> DedupValues] : \A a, b \in 1..n : a < b => v[a] >= v[b]}

DedupInit ==
    /\ \E n \in 0..MaxRawMaxima :
         \E lats \in [1..n -> DedupLatitudes],
            lngs \in [1..n -> DedupLongitudes],
            vals \in DescendingValues(n) :
             local_max_dict_latlng =
                 [latitudes_deg |-> lats, longitudes_deg |-> lngs,
                  max_values |-> vals]
    /\ min_distance_between_maxima_metres \in DedupMinDistances
    /\ dedup_pc = "call"
    /\ keep_max_indices = <<>>
    /\ local_max_dictionary = <<>>

\* The variables of the function while another function is under check.
DedupIdle ==
    /\ local_max_dict_latlng = <<>>
    /\ min_distance_between_maxima_metres = 0
    /\ dedup_pc = "idle"
    /\ keep_max_indices = <<>>
    /\ local_max_dictionary = <<>>

DedupNext == RemoveRedundantLocalMaxima

\* Arguments of the linker.
\* Coordinates (metres) of the maxima: the corners of a 1-by-2 rectangle, so
\* that the squared distances are 0, 1, 4 and 5.
LinkXCoords == {0, 1}
LinkYCoords == {0, 2}
\* Valid times: the previous snapshot is at time 1, the current one between
\* one second before it and three seconds after it.
LinkCurrentTimes == {0, 1, 2, 3, 4}
LinkPreviousTimes == {1}
\* Values of max_link_time_seconds and of max_link_distance_m_s01.
LinkTimeLimits == {1, 2}
LinkSpeedLimits == {0, 1, 2}

LinkInit ==
    /\ \E n \in 0..MaxMaxima :
         \E xs \in [1..n -> LinkXCoords], ys \in [1..n -> LinkYCoords],
            t \in LinkCurrentTimes :
             current_local_max_dict = LocalMaxDict(xs, ys, t)
    /\ \/ previous_local_max_dict = None
       \/ \E n \in 0..MaxMaxima :
            \E xs \in [1..n -> LinkXCoords], ys \in [1..n -> LinkYCoords],
               t \in LinkPreviousTimes :
                previous_local_max_dict = LocalMaxDict(xs, ys, t)
    /\ max_link_time_seconds \in LinkTimeLimits
    /\ max_link_distance_m_s01 \in LinkSpeedLimits
    /\ link_pc = "call"
    /\ best_prev_indices = <<>>
    /\ current_to_previous_indices = <<>>

\* The variables of the function while another function is under check.
LinkIdle ==
    /\ current_local_max_dict = <<>>
    /\ previous_local_max_dict = <<>>
    /\ max_link_time_seconds = 0
    /\ max_link_distance_m_s01 = 0
    /\ link_pc = "idle"
    /\ best_prev_indices = <<>>
    /\ current_to_previous_indices = <<>>

LinkNext ==
    \/ LinkNoPreviousDict
    \/ LinkEarlyReturn
    \/ LinkLoops

(***************************************************************************)
(* _create_storm_id                                                        *)
(***************************************************************************)
DAYS_TO_SECONDS == 86400

\* time_conversion is not among the modelled sources.  An SPC date is the 24
\* hours that begin at 1200 UTC of the calendar day it is named after; the
\* table covers the first days of the Unix epoch.
SpcDateStrings == <<"19700101", "19700102", "19700103", "19700104">>

\* Number of the SPC date that contains the time (0 for "19700101").
SpcDateNumber(unix_time_sec) == (unix_time_sec - 43200) \div DAYS_TO_SECONDS

\* time_conversion.time_to_spc_date_string
TimeToSpcDateString(unix_time_sec) ==
    SpcDateStrings[SpcDateNumber(unix_time_sec) + 1]

\* time_conversion.time_to_spc_date_unix_sec: one Unix time that stands for
\* the SPC date (1800 UTC of the calendar day); equal for all times of an SPC
\* date.
TimeToSpcDateUnixSec(unix_time_sec) ==
    SpcDateNumber(unix_time_sec) * DAYS_TO_SECONDS + 64800

DecimalDigits == <<"0", "1", "2", "3", "4", "5", "6", "7", "8", "9">>

\* str.format with 'd' for a non-negative integer.
RECURSIVE DecimalString(_)
DecimalString(n) ==
    IF n < 10 THEN DecimalDigits[n + 1]
    ELSE DecimalString(n \div 10) \o DecimalDigits[(n % 10) + 1]

\* Zero padding of '0<width>d': pads on the left, never truncates.
RECURSIVE ZeroPadded(_, _)
ZeroPadded(string, width) ==
    IF Len(string) >= width THEN string
    ELSE ZeroPadded("0" \o string, width)

\* '{0:06d}_{1:s}'.format(numeric_id, spc_date_string), line 460.
FormatStormId(numeric_id, spc_date_string) ==
    ZeroPadded(DecimalString(numeric_id), 6) \o "_" \o spc_date_string

\* As _create_storm_id, but the numeric id goes on counting over a change of
\* the SPC date.
CreateStormIdWithoutReset(storm_start_time_unix_sec, prev_numeric_id, prev_spc_date) ==
    LET spc_date_string == TimeToSpcDateString(storm_start_time_unix_sec)
        numeric_id == prev_numeric_id + 1
    IN  [string_id |-> FormatStormId(numeric_id, spc_date_string),
         numeric_id |-> numeric_id,
         spc_date_string |-> spc_date_string]

\* The three values returned at line 461.
CreateStormId(storm_start_time_unix_sec, prev_numeric_id, prev_spc_date) ==
    LET spc_date_string == TimeToSpcDateString(storm_start_time_unix_sec)
        numeric_id == IF spc_date_string = prev_spc_date
                      THEN prev_numeric_id + 1
                      ELSE 0
    IN  [string_id |-> FormatStormId(numeric_id, spc_date_string),
         numeric_id |-> numeric_id,
         spc_date_string |-> spc_date_string]

(***************************************************************************)
(* _local_maxima_to_storm_tracks                                           *)
(***************************************************************************)

\* As ListItem, but the index is taken to count from one.
ListItemFromOne(list, index) ==
    IF index >= 1 /\ index <= Len(list)
    THEN [raised |-> FALSE, item |-> list[index]]
    ELSE IF index <= 0 /\ index > -Len(list)
    THEN [raised |-> FALSE, item |-> list[Len(list) + index]]
    ELSE [raised |-> TRUE, item |-> ""]

\* list[index] of Python for a 0-based index: a negative index counts from
\* the end of the list, an index outside the list raises IndexError.
ListItem(list, index) ==
    IF index >= 0 /\ index < Len(list)
    THEN [raised |-> FALSE, item |-> list[index + 1]]
    ELSE IF index < 0 /\ index >= -Len(list)
    THEN [raised |-> FALSE, item |-> list[Len(list) + index + 1]]
    ELSE [raised |-> TRUE, item |-> ""]

\* local_max_dict_by_time[i - 1][STORM_IDS_KEY] of line 524, for the snapshot
\* that follows the handled ones.  For the first snapshot i - 1 is -1, the
\* last snapshot of the list: the snapshot itself if the list has one entry,
\* otherwise a snapshot that has no storm ids yet (KeyError).
PreviousStormIds(handled_dicts, n_times, these_storm_ids) ==
    IF Len(handled_dicts) >= 1
    THEN [raised |-> FALSE, list |-> handled_dicts[Len(handled_dicts)].storm_ids]
    ELSE IF n_times = 1
    THEN [raised |-> FALSE, list |-> these_storm_ids]
    ELSE [raised |-> TRUE, list |-> <<>>]

\* The inner loop (lines 510-525) from the j-th maximum on.  state holds the
\* storm ids of the snapshot, the two loop-carried values and whether an
\* exception was raised.
RECURSIVE AssignStormIds(_, _, _, _, _)
AssignStormIds(handled_dicts, n_times, this_dict, j, state) ==
    IF state.raised \/ j > Len(this_dict.latitudes_deg) THEN state
    ELSE LET this_previous_index == this_dict.current_to_previous_indices[j] IN
         IF this_previous_index = -1
         THEN LET new == CreateStormId(this_dict.unix_time_sec,
                                       state.prev_numeric_id_used,
                                       state.prev_spc_date_string)
              IN  AssignStormIds(handled_dicts, n_times, this_dict, j + 1,
                      [state EXCEPT !.storm_ids[j] = new.string_id,
                                    !.prev_numeric_id_used = new.numeric_id,
                                    !.prev_spc_date_string = new.spc_date_string])
         ELSE LET previous == PreviousStormIds(handled_dicts, n_times,
                                               state.storm_ids)
                  found == ListItem(previous.list, this_previous_index)
              IN  IF previous.raised \/ found.raised
                  THEN [state EXCEPT !.raised = TRUE]
                  ELSE AssignStormIds(handled_dicts, n_times, this_dict, j + 1,
                           [state EXCEPT !.storm_ids[j] = found.item])

\* The rows of one snapshot in reverse order of its maxima.
TheseStormObjectsReversed(this_dict, these_storm_ids) ==
    [j \in 1..Len(these_storm_ids) |->
        LET k == Len(these_storm_ids) + 1 - j
        IN  [storm_id |-> these_storm_ids[k],
             unix_time_sec |-> this_dict.unix_time_sec,
             spc_date_unix_sec |-> TimeToSpcDateUnixSec(this_dict.unix_time_sec),
             centroid_lat_deg |-> this_dict.latitudes_deg[k],
             centroid_lng_deg |-> this_dict.longitudes_deg[k]]]

\* The rows that lines 527-545 add to the columns for one snapshot.
TheseStormObjects(this_dict, these_storm_ids) ==
    [j \in 1..Len(these_storm_ids) |->
        [storm_id |-> these_storm_ids[j],
         unix_time_sec |-> this_dict.unix_time_sec,
         spc_date_unix_sec |-> TimeToSpcDateUnixSec(this_dict.unix_time_sec),
         centroid_lat_deg |-> this_dict.latitudes_deg[j],
         centroid_lng_deg |-> this_dict.longitudes_deg[j]]]

\* The snapshots given to the assembler.  Valid times: the first snapshot is
\* five or ten minutes before the SPC date "19700102" begins (129600), the
\* others follow in steps of five minutes, in time order as run_tracking
\* orders them.
TrackStartTimes == {129000, 129300}
TrackTimeSteps == {300}
\* Number of maxima of a snapshot.
TrackNumMaxima == {0, 1, 2}
\* Centroids (0.01 deg): the maxima of a snapshot lie in a row that begins at
\* one of these latitudes.  The assembler only copies them.
TrackFirstLatitudes == {3500, 3510}
TrackFirstLongitude == 26500

\* The times that the snapshot after the handled ones may have.
NextValidTimes(handled_dicts) ==
    IF handled_dicts = <<>> THEN TrackStartTimes
    ELSE {handled_dicts[Len(handled_dicts)].unix_time_sec + step :
              step \in TrackTimeSteps}

\* The link values that the linker can give to a maximum of the snapshot
\* after the handled ones: -1 or the 0-based index of a maximum of the
\* snapshot before.
NextLinkValues(handled_dicts) ==
    IF handled_dicts = <<>> THEN {-1}
    ELSE -1 .. (Len(handled_dicts[Len(handled_dicts)].latitudes_deg) - 1)

\* One entry of local_max_dict_by_time as the caller passes it.
TimeStepDict(n, first_latitude, t, links) ==
    [latitudes_deg |-> [j \in 1..n |-> first_latitude + (j - 1)],
     longitudes_deg |-> [j \in 1..n |-> TrackFirstLongitude + 2 * (j - 1)],
     unix_time_sec |-> t,
     current_to_previous_indices |-> links]

\* One pass of the loop over the time steps (lines 505-545) for the snapshot
\* this_dict.  A pass raises if a storm id cannot be looked up (line 524)
\* and, at line 532, if the snapshot has no maxima (these_times_unix_sec[0]
\* of an empty array).
HandleThisDict(this_dict) ==
    \E state \in {AssignStormIds(local_max_dict_by_time, num_times,
                      this_dict, 1,
                      [storm_ids |-> Full(Len(this_dict.latitudes_deg), ""),
                       prev_numeric_id_used |-> prev_numeric_id_used,
                       prev_spc_date_string |-> prev_spc_date_string,
                       raised |-> FALSE])} :
        /\ local_max_dict_by_time' = Append(local_max_dict_by_time,
               [latitudes_deg |-> this_dict.latitudes_deg,
                longitudes_deg |-> this_dict.longitudes_deg,
                unix_time_sec |-> this_dict.unix_time_sec,
                current_to_previous_indices |->
                    this_dict.current_to_previous_indices,
                storm_ids |-> state.storm_ids])
        /\ prev_numeric_id_used' = state.prev_numeric_id_used
        /\ prev_spc_date_string' = state.prev_spc_date_string
        /\ IF state.raised \/ Len(this_dict.latitudes_deg) = 0
           THEN /\ track_pc' = "raised"
                /\ UNCHANGED storm_object_table
           ELSE /\ track_pc' = "loop"
                /\ storm_object_table' = storm_object_table \o
                       TheseStormObjects(this_dict, state.storm_ids)

\* A pass of the loop for a snapshot that the caller passes.
HandleTimeStep(link_values) ==
    /\ track_pc = "loop"
    /\ Len(local_max_dict_by_time) < num_times
    /\ \E n \in TrackNumMaxima, first_latitude \in TrackFirstLatitudes,
          t \in NextValidTimes(local_max_dict_by_time) :
        \E links \in [1..n -> link_values] :
            HandleThisDict(TimeStepDict(n, first_latitude, t, links))
    /\ UNCHANGED <<num_times, min_duration_seconds, long_storm_object_table>>
    /\ UNCHANGED <<linkVars, dedupVars, laterVars>>

\* A pass of the loop for a snapshot whose links are such as the linker
\* gives them.
ProcessTimeStep == HandleTimeStep(NextLinkValues(local_max_dict_by_time))

\* Link values of any kind: the function does not check the array it is
\* given.
TrackAnyLinkValues == {-3, -2, -1, 0, 1, 2}

\* A pass of the loop for a snapshot with link values of any kind.
ProcessTimeStepAnyLinks == HandleTimeStep(TrackAnyLinkValues)

\* The table is built from the columns and returned (lines 547-555).
ReturnStormObjectTable ==
    /\ track_pc = "loop"
    /\ Len(local_max_dict_by_time) = num_times
    /\ track_pc' = "returned"
    /\ UNCHANGED <<num_times, local_max_dict_by_time, prev_numeric_id_used,
                   prev_spc_date_string, storm_object_table,
                   min_duration_seconds, long_storm_object_table>>
    /\ UNCHANGED <<linkVars, dedupVars, laterVars>>

(***************************************************************************)
(* _remove_short_tracks                                                    *)
(***************************************************************************)
SetMax(S) == CHOOSE x \in S : \A y \in S : y <= x
SetMin(S) == CHOOSE x \in S : \A y \in S : x <= y

\* numpy.unique of the id column (lines 570-573), as a set.
UniqueStormIds(table) == {table[r].storm_id : r \in DOMAIN table}

\* Rows of one id (line 577).
TheseObjectIndices(table, storm_id) ==
    {r \in DOMAIN table : table[r].storm_id = storm_id}

\* Lines 578-582.
ThisDurationSeconds(table, storm_id) ==
    LET these_times_unix_sec ==
            {table[r].unix_time_sec : r \in TheseObjectIndices(table, storm_id)}
    IN  SetMax(these_times_unix_sec) - SetMin(these_times_unix_sec)

\* As IsLongEnough, but a track that lasts exactly the minimum is short.
IsLongerThan(this_duration_seconds, min_duration) ==
    this_duration_seconds > min_duration

\* The test of line 583.
IsLongEnough(this_duration_seconds, min_duration) ==
    this_duration_seconds >= min_duration

\* rows_to_remove after the loop of lines 576-587.
RowsToRemove(table, min_duration) ==
    UNION {IF IsLongEnough(ThisDurationSeconds(table, storm_id), min_duration)
           THEN {}
           ELSE TheseObjectIndices(table, storm_id) :
               storm_id \in UniqueStormIds(table)}

\* DataFrame.drop of the rows, from row r on (line 589): the other rows stay
\* as they are and in their order.
RECURSIVE DropRows(_, _, _)
DropRows(table, rows_to_remove, r) ==
    IF r > Len(table) THEN <<>>
    ELSE (IF r \in rows_to_remove THEN <<>> ELSE <<table[r]>>)
         \o DropRows(table, rows_to_remove, r + 1)

TrackMinDurations == {0, 300, 600, 900}

\* _remove_short_tracks applied to the table that the assembler returned, as
\* run_tracking does (lines 710-712).
RemoveShortTracks ==
    /\ track_pc = "returned"
    /\ \E min_duration \in TrackMinDurations :
         /\ min_duration_seconds' = min_duration
         /\ long_storm_object_table' =
                DropRows(storm_object_table,
                         RowsToRemove(storm_object_table, min_duration), 1)
    /\ track_pc' = "pruned"
    /\ UNCHANGED <<num_times, local_max_dict_by_time, prev_numeric_id_used,
                   prev_spc_date_string, storm_object_table>>
    /\ UNCHANGED <<linkVars, dedupVars, laterVars>>

\* State at the call of _local_maxima_to_storm_tracks (lines 495-503).
TrackInit ==
    /\ num_times \in 0..MaxTimes
    /\ local_max_dict_by_time = <<>>
    /\ prev_numeric_id_used = -1
    /\ prev_spc_date_string = "00000101"
    /\ storm_object_table = <<>>
    /\ track_pc = "loop"
    /\ min_duration_seconds = 0
    /\ long_storm_object_table = <<>>

\* The variables of the functions while another function is under check.
TrackIdle ==
    /\ num_times = 0
    /\ local_max_dict_by_time = <<>>
    /\ prev_numeric_id_used = -1
    /\ prev_spc_date_string = "00000101"
    /\ storm_object_table = <<>>
    /\ track_pc = "idle"
    /\ min_duration_seconds = 0
    /\ long_storm_object_table = <<>>

TrackNext ==
    \/ ProcessTimeStep
    \/ ReturnStormObjectTable
    \/ RemoveShortTracks

InitLink == LinkInit /\ DedupIdle /\ TrackIdle /\ LaterIdle
SpecLink == InitLink /\ [][LinkNext]_vars

InitDedup == DedupInit /\ LinkIdle /\ TrackIdle /\ LaterIdle
SpecDedup == InitDedup /\ [][DedupNext]_vars

InitTrack == TrackInit /\ LinkIdle /\ DedupIdle /\ LaterIdle
SpecTrack == InitTrack /\ [][TrackNext]_vars

\* _local_maxima_to_storm_tracks called with link arrays of any kind.
TrackAnyLinksNext ==
    \/ ProcessTimeStepAnyLinks
    \/ ReturnStormObjectTable

InitTrackAnyLinks == TrackInit /\ LinkIdle /\ DedupIdle /\ LaterIdle
SpecTrackAnyLinks == InitTrackAnyLinks /\ [][TrackAnyLinksNext]_vars

(***************************************************************************)
(* Claims about _link_local_maxima_in_time, checked under SpecLink.  The   *)
(* formulas compare squared distances with squared limits themselves; they *)
(* do not use the operators of the model of the function.                  *)
(***************************************************************************)
LinkReturned == link_pc = "returned"
HasPreviousDict == previous_local_max_dict # None
CurrentRange == 1..Len(current_local_max_dict.x_coords_metres)
PreviousRange == 1..Len(previous_local_max_dict.x_coords_metres)
\* Squared distance between current maximum i and previous maximum k.
LinkDistSq(i, k) ==
    Square(current_local_max_dict.x_coords_metres[i]
               - previous_local_max_dict.x_coords_metres[k])
        + Square(current_local_max_dict.y_coords_metres[i]
                     - previous_local_max_dict.y_coords_metres[k])
\* Square of the largest distance that the speed limit allows over the
\* actual time gap.
LinkLimitSq == Square(max_link_distance_m_s01 * TimeDiffSeconds)
AllUnlinked == \A i \in DOMAIN current_to_previous_indices :
                   current_to_previous_indices[i] = -1

\* C1: the returned array is injective on its non-negative entries: no index
\* of a previous maximum appears at two positions of
\* current_to_previous_indices.
C1_LinksInjective ==
    LinkReturned =>
        \A i, k \in DOMAIN current_to_previous_indices :
            (i # k /\ current_to_previous_indices[i] >= 0) =>
                current_to_previous_indices[i] # current_to_previous_indices[k]

\* C1 witness: two current maxima chose the same previous maximum in the first
\* loop, and the returned array still holds a link.
C1_Witness ==
    /\ LinkReturned
    /\ \E i, k \in DOMAIN best_prev_indices :
           i # k /\ best_prev_indices[i] >= 0
               /\ best_prev_indices[i] = best_prev_indices[k]
    /\ \E i \in DOMAIN current_to_previous_indices :
           current_to_previous_indices[i] >= 0

\* C3: when current time minus previous time is greater than
\* max_link_time_seconds every entry of the result is -1, whatever the
\* positions; a gap equal to max_link_time_seconds does not close the gate: a
\* current maximum within the distance limit of a previous one then yields a
\* link.
C3_TimeGate ==
    (LinkReturned /\ HasPreviousDict) =>
        /\ TimeDiffSeconds > max_link_time_seconds => AllUnlinked
        /\ ( /\ TimeDiffSeconds = max_link_time_seconds
             /\ \E i \in CurrentRange, k \in PreviousRange :
                    LinkDistSq(i, k) <= LinkLimitSq )
           => ~AllUnlinked

\* C3 witness: the gap exceeds the limit while a current maximum sits exactly
\* on a previous maximum.
C3_Witness ==
    /\ LinkReturned
    /\ HasPreviousDict
    /\ TimeDiffSeconds > max_link_time_seconds
    /\ \E i \in CurrentRange, k \in PreviousRange : LinkDistSq(i, k) = 0

\* C4: when two or more current maxima chose the same previous maximum j,
\* exactly one of them keeps the link, one with the smallest implied speed
\* (distance / time gap: the smallest distance for a positive gap, the largest
\* for a negative gap), and every other contender is -1; no contender is
\* linked to another previous maximum.
C4_ConflictResolution ==
    LinkReturned =>
        \A j \in {best_prev_indices[i] : i \in DOMAIN best_prev_indices} \ {-1} :
            LET contenders ==
                    {i \in DOMAIN best_prev_indices : best_prev_indices[i] = j}
            IN  Cardinality(contenders) >= 2 =>
                    \E w \in contenders :
                        /\ current_to_previous_indices[w] = j
                        /\ \A i \in contenders \ {w} :
                               current_to_previous_indices[i] = -1
                        /\ \A i \in contenders :
                               /\ TimeDiffSeconds > 0 =>
                                      LinkDistSq(w, j + 1) <= LinkDistSq(i, j + 1)
                               /\ TimeDiffSeconds < 0 =>
                                      LinkDistSq(w, j + 1) >= LinkDistSq(i, j + 1)

\* C4 witness: a contender lost the conflict although another previous
\* maximum, chosen by no current maximum, lies within its distance limit, and
\* the winner is strictly nearer than the loser.
C4_Witness ==
    /\ LinkReturned
    /\ HasPreviousDict
    /\ TimeDiffSeconds > 0
    /\ \E i, w \in DOMAIN best_prev_indices :
           /\ i # w
           /\ best_prev_indices[i] >= 0
           /\ best_prev_indices[i] = best_prev_indices[w]
           /\ current_to_previous_indices[i] = -1
           /\ current_to_previous_indices[w] = best_prev_indices[w]
           /\ LinkDistSq(w, best_prev_indices[w] + 1)
                  < LinkDistSq(i, best_prev_indices[i] + 1)
           /\ \E k \in PreviousRange :
                  /\ k - 1 # best_prev_indices[i]
                  /\ \A m \in DOMAIN best_prev_indices :
                         best_prev_indices[m] # k - 1
                  /\ LinkDistSq(i, k) <= LinkLimitSq

\* C5: with both snapshots non-empty and the time gap within the limit, the
\* first loop leaves a current maximum unlinked exactly when the implied speed
\* to its nearest previous maximum (distance / actual time gap) exceeds
\* max_link_distance_m_s01, and otherwise chooses a previous maximum at the
\* smallest implied speed; a speed equal to the limit links.  For a positive
\* gap: unlinked iff every previous maximum is farther than limit * gap.  For
\* a zero gap the quotient is infinite unless the distance is 0; for a
\* negative gap it is never positive, so it never exceeds the limit.
C5_SpeedLimit ==
    ( /\ LinkReturned
      /\ HasPreviousDict
      /\ CurrentRange # {}
      /\ PreviousRange # {}
      /\ TimeDiffSeconds <= max_link_time_seconds )
    => \A i \in CurrentRange :
          /\ TimeDiffSeconds > 0 =>
                /\ best_prev_indices[i] = -1 <=>
                       \A k \in PreviousRange : LinkDistSq(i, k) > LinkLimitSq
                /\ best_prev_indices[i] # -1 =>
                       /\ best_prev_indices[i] + 1 \in PreviousRange
                       /\ \A k \in PreviousRange :
                              LinkDistSq(i, best_prev_indices[i] + 1)
                                  <= LinkDistSq(i, k)
          /\ TimeDiffSeconds = 0 =>
                (best_prev_indices[i] = -1 <=>
                     \A k \in PreviousRange : LinkDistSq(i, k) > 0)
          /\ TimeDiffSeconds < 0 =>
                best_prev_indices[i] + 1 \in PreviousRange

\* C5 witness: a current maximum whose nearest previous maximum is at a
\* distance of exactly limit * gap > 0, and which is linked to it.
C5_Witness ==
    /\ LinkReturned
    /\ HasPreviousDict
    /\ TimeDiffSeconds > 0
    /\ TimeDiffSeconds <= max_link_time_seconds
    /\ \E i \in CurrentRange :
           /\ best_prev_indices[i] >= 0
           /\ LinkLimitSq > 0
           /\ LinkDistSq(i, best_prev_indices[i] + 1) = LinkLimitSq

\* C6: the result has one entry per current maximum, and all entries are -1
\* when there is no previous snapshot, when the previous snapshot has no
\* maxima or when the current snapshot has none (then the result is empty);
\* none of these cases raises.
C6_EmptyCases ==
    /\ LinkReturned =>
           Len(current_to_previous_indices)
               = Len(current_local_max_dict.x_coords_metres)
    /\ ( link_pc # "call"
         /\ ( \/ ~HasPreviousDict
              \/ PreviousRange = {}
              \/ CurrentRange = {} ) )
       => /\ link_pc = "returned"
          /\ AllUnlinked

\* C6 witness: a call with an empty previous snapshot and a non-empty current
\* one, within the time limit, has returned.
C6_Witness ==
    /\ LinkReturned
    /\ HasPreviousDict
    /\ PreviousRange = {}
    /\ CurrentRange # {}
    /\ TimeDiffSeconds <= max_link_time_seconds

(***************************************************************************)
(* Claims about _remove_redundant_local_maxima, checked under SpecDedup.   *)
(***************************************************************************)
DedupReturned == dedup_pc = "returned"
RawRange == 1..Len(local_max_dict_latlng.latitudes_deg)
\* Squared projected distance between the input maxima i and j.
RawDistSq(i, j) ==
    LET p == ProjectLatLngToXY(local_max_dict_latlng.latitudes_deg[i],
                               local_max_dict_latlng.longitudes_deg[i])
        q == ProjectLatLngToXY(local_max_dict_latlng.latitudes_deg[j],
                               local_max_dict_latlng.longitudes_deg[j])
    IN  Square(p.x - q.x) + Square(p.y - q.y)
\* Input maxima i and j are strictly nearer than the minimum distance.
RawNearer(i, j) ==
    /\ min_distance_between_maxima_metres > 0
    /\ RawDistSq(i, j) < Square(min_distance_between_maxima_metres)
\* Input maximum i (1-based) is among the survivors.
Survives(i) == \E m \in DOMAIN keep_max_indices : keep_max_indices[m] = i - 1

\* C9: after the call every two distinct surviving maxima are at projected
\* distance >= min_distance_between_maxima_metres, and the survivors are a
\* subsequence of the input (ascending input positions) whose latitude,
\* longitude and value are those of the input.
C9_SurvivorsApart ==
    DedupReturned =>
        /\ \A a, b \in DOMAIN local_max_dictionary.x_coords_metres :
               a # b =>
                   \/ min_distance_between_maxima_metres <= 0
                   \/ Square(local_max_dictionary.x_coords_metres[a]
                                 - local_max_dictionary.x_coords_metres[b])
                        + Square(local_max_dictionary.y_coords_metres[a]
                                     - local_max_dictionary.y_coords_metres[b])
                      >= Square(min_distance_between_maxima_metres)
        /\ \A m \in DOMAIN keep_max_indices :
               /\ keep_max_indices[m] + 1 \in RawRange
               /\ \A n \in DOMAIN keep_max_indices :
                      m < n => keep_max_indices[m] < keep_max_indices[n]
        /\ Len(local_max_dictionary.latitudes_deg) = Len(keep_max_indices)
        /\ Len(local_max_dictionary.longitudes_deg) = Len(keep_max_indices)
        /\ Len(local_max_dictionary.max_values) = Len(keep_max_indices)
        /\ Len(local_max_dictionary.x_coords_metres) = Len(keep_max_indices)
        /\ Len(local_max_dictionary.y_coords_metres) = Len(keep_max_indices)
        /\ \A m \in DOMAIN keep_max_indices :
               /\ local_max_dictionary.latitudes_deg[m] =
                      local_max_dict_latlng.latitudes_deg[keep_max_indices[m] + 1]
               /\ local_max_dictionary.longitudes_deg[m] =
                      local_max_dict_latlng.longitudes_deg[keep_max_indices[m] + 1]
               /\ local_max_dictionary.max_values[m] =
                      local_max_dict_latlng.max_values[keep_max_indices[m] + 1]

\* C9 witness: maxima were removed and at least two survive, two of them at
\* exactly the minimum distance.
C9_Witness ==
    /\ DedupReturned
    /\ min_distance_between_maxima_metres > 0
    /\ Len(keep_max_indices) < Len(local_max_dict_latlng.latitudes_deg)
    /\ \E a, b \in DOMAIN local_max_dictionary.x_coords_metres :
           /\ a # b
           /\ Square(local_max_dictionary.x_coords_metres[a]
                         - local_max_dictionary.x_coords_metres[b])
                + Square(local_max_dictionary.y_coords_metres[a]
                             - local_max_dictionary.y_coords_metres[b])
              = Square(min_distance_between_maxima_metres)

TimeSteps == DOMAIN local_max_dict_by_time
\* All maxima handled so far, as pairs <<time step, position>>.
HandledMaxima ==
    UNION {{<<i, j>> : j \in DOMAIN local_max_dict_by_time[i].storm_ids} :
               i \in TimeSteps}
LinkOf(m) == local_max_dict_by_time[m[1]].current_to_previous_indices[m[2]]
StormIdOf(m) == local_max_dict_by_time[m[1]].storm_ids[m[2]]
SpcDateOf(m) == TimeToSpcDateString(local_max_dict_by_time[m[1]].unix_time_sec)
\* m1 is handled before m2.
HandledBefore(m1, m2) == m1[1] < m2[1] \/ (m1[1] = m2[1] /\ m1[2] < m2[2])
\* The maxima that begin a track.
UnlinkedMaxima == {m \in HandledMaxima : LinkOf(m) = -1}

\* The maximum at which the chain of links through m begins.
RECURSIVE ChainStart(_)
ChainStart(m) ==
    IF LinkOf(m) = -1 \/ m[1] = 1 THEN m
    ELSE ChainStart(<<m[1] - 1, LinkOf(m) + 1>>)

UnlinkedJustBefore(m) ==
    {q \in UnlinkedMaxima :
        /\ HandledBefore(q, m)
        /\ \A r \in UnlinkedMaxima :
               ~(HandledBefore(q, r) /\ HandledBefore(r, m))}

\* A number below 100 written with six digits.
SixDigits(n) ==
    IF n < 10 THEN "00000" \o DecimalDigits[n + 1]
    ELSE "0000" \o DecimalDigits[(n \div 10) + 1] \o DecimalDigits[(n % 10) + 1]

\* The numbers n for which the id of m is n in six digits, "_" and the SPC
\* date of m.  No more ids are made than there are unlinked maxima.
NumericParts(m) ==
    {n \in 0..Cardinality(UnlinkedMaxima) :
        StormIdOf(m) = SixDigits(n) \o "_" \o SpcDateOf(m)}
NumericPartOf(m) == CHOOSE n \in NumericParts(m) : TRUE

\* C7: in _local_maxima_to_storm_tracks (during its loop, when it raises
\* and when it returns) the id of every new storm is a number in six
\* digits, "_" and the SPC date of the storm's start time.  The number is 0
\* when that SPC date
\* differs from the SPC date carried in the state (that of the id made
\* before, or the initial "00000101"), and is the number of the id made
\* before plus 1 otherwise; the numbers made on one SPC date increase
\* strictly; the state carries the number and SPC date made last.
C7_StormIdMinting ==
    track_pc \in {"loop", "raised", "returned"} =>
        /\ \A m \in UnlinkedMaxima :
             /\ NumericParts(m) # {}
             /\ Len(StormIdOf(m)) = 15
             /\ \A q \in UnlinkedJustBefore(m) :
                    NumericPartOf(m) = IF SpcDateOf(q) = SpcDateOf(m)
                                       THEN NumericPartOf(q) + 1
                                       ELSE 0
             /\ UnlinkedJustBefore(m) = {} => NumericPartOf(m) = 0
             /\ \A q \in UnlinkedMaxima :
                    (HandledBefore(q, m) /\ SpcDateOf(q) = SpcDateOf(m))
                        => NumericPartOf(q) < NumericPartOf(m)
             /\ (\A r \in UnlinkedMaxima : ~HandledBefore(m, r)) =>
                    /\ prev_numeric_id_used = NumericPartOf(m)
                    /\ prev_spc_date_string = SpcDateOf(m)
        /\ UnlinkedMaxima = {} =>
               /\ prev_numeric_id_used = -1
               /\ prev_spc_date_string = "00000101"

\* Three ids were made on one SPC date and two on the next one.
C7_Witness ==
    /\ track_pc = "returned"
    /\ \E m1, m2 \in UnlinkedMaxima :
         /\ StormIdOf(m1) = "000002_19700101"
         /\ StormIdOf(m2) = "000001_19700102"
         /\ HandledBefore(m1, m2)

\* The rows of the id span at least the duration.
LastsAtLeast(table, storm_id, duration) ==
    \E r1, r2 \in DOMAIN table :
        /\ table[r1].storm_id = storm_id
        /\ table[r2].storm_id = storm_id
        /\ table[r2].unix_time_sec - table[r1].unix_time_sec >= duration

\* C8: _remove_short_tracks returns the rows of the ids whose duration, last
\* valid time minus first valid time, is at least min_duration_seconds, as
\* they were and in their order, and no row of any other id; so every track
\* of the result lasts at least min_duration_seconds.
C8_ShortTracksRemoved ==
    track_pc = "pruned" =>
        /\ long_storm_object_table =
               SelectSeq(storm_object_table,
                         LAMBDA row : LastsAtLeast(storm_object_table,
                                                   row.storm_id,
                                                   min_duration_seconds))
        /\ \A r \in DOMAIN long_storm_object_table :
               LastsAtLeast(long_storm_object_table,
                            long_storm_object_table[r].storm_id,
                            min_duration_seconds)

\* A track that lasts exactly the minimum is kept with its rows and another
\* track is removed.
C8_Witness ==
    /\ track_pc = "pruned"
    /\ min_duration_seconds > 0
    /\ \E r \in DOMAIN long_storm_object_table :
         /\ LastsAtLeast(long_storm_object_table,
                         long_storm_object_table[r].storm_id,
                         min_duration_seconds)
         /\ ~LastsAtLeast(long_storm_object_table,
                          long_storm_object_table[r].storm_id,
                          min_duration_seconds + 1)
    /\ Len(long_storm_object_table) < Len(storm_object_table)

\* C11: when the input consists of two maxima nearer to each other than
\* min_distance_between_maxima_metres, exactly one of the two survives; when
\* they are at least the minimum apart, both survive.
C11_PairKeepsOne ==
    (DedupReturned /\ Len(local_max_dict_latlng.latitudes_deg) = 2) =>
        IF RawNearer(1, 2)
        THEN Len(keep_max_indices) = 1
        ELSE Len(keep_max_indices) = 2

\* C12: a time step whose snapshot has zero maxima is a normal case for
\* _local_maxima_to_storm_tracks: handling it raises no error and adds no
\* row to the table.
C12_EmptySnapshotAccepted ==
    \A i \in TimeSteps :
        Len(local_max_dict_by_time[i].latitudes_deg) = 0 =>
            /\ track_pc # "raised"
            /\ \A r \in DOMAIN storm_object_table :
                   storm_object_table[r].unix_time_sec #
                       local_max_dict_by_time[i].unix_time_sec

\* The link of the handled maximum m is neither -1 nor the 0-based index of
\* a maximum of the snapshot just before (there is none before the first).
LinkIsInvalid(m) ==
    /\ LinkOf(m) # -1
    /\ \/ m[1] = 1
       \/ LinkOf(m) < 0
       \/ m[1] > 1 /\
          LinkOf(m) >= Len(local_max_dict_by_time[m[1] - 1].latitudes_deg)

\* C13: a link index other than -1 that is no valid index into the maxima of
\* the snapshot just before makes _local_maxima_to_storm_tracks raise an
\* error; it never goes on, or returns, with a storm id taken through such
\* an index.
C13_InvalidLinkRaises ==
    \A m \in HandledMaxima : LinkIsInvalid(m) => track_pc = "raised"

\* C14: a current snapshot whose valid time is not later than the valid time
\* of the previous snapshot is fatal for the linker: the call raises an
\* error, so that no link is ever made across a zero or negative time gap.
\* The formula states the consequence: the linker never returns a link
\* across such a gap.
C14_NoLinkAcrossNonPositiveGap ==
    (link_pc = "returned" /\ HasPreviousDict /\ TimeDiffSeconds <= 0) =>
        AllUnlinked

(***************************************************************************)
(* run_tracking: the checks of its arguments and the order in which it     *)
(* reads the radar files.  What it computes from the grids is modelled by  *)
(* the specifications of the functions it calls.                           *)
(***************************************************************************)

\* Values of the numeric arguments, valid and invalid ones.
RunMinEchoTopHeights == {0, 4}
RunHalfWidths == {0, 3}
RunMaxLinkTimes == {-300, 300}
RunMaxLinkDistances == {-50, 50}
RunMinTrackDurations == {-900, 900}

\* Valid time of the first radar file and the time between two files.
RunFirstTime == 129000
RunTimeStep == 300

\* State at the call (lines 593-606).
RunInit ==
    /\ run_arguments \in
           [min_echo_top_height_km_asl : RunMinEchoTopHeights,
            half_width_for_max_filter_pixels : RunHalfWidths,
            max_link_time_seconds : RunMaxLinkTimes,
            max_link_distance_m_s01 : RunMaxLinkDistances,
            min_track_duration_seconds : RunMinTrackDurations]
    /\ unix_times_sec = <<>>
    /\ num_radar_files_read = 0
    /\ run_pc = "call"

\* error_checking.assert_is_greater(min_echo_top_height_km_asl, 0.), line
\* 633: the only check that run_tracking makes of its numeric arguments.
ArgumentsPassCheck(arguments) == arguments.min_echo_top_height_km_asl > 0

\* Line 633 raises.
RunRejectArguments ==
    /\ run_pc = "call"
    /\ ~ArgumentsPassCheck(run_arguments)
    /\ run_pc' = "raised"
    /\ UNCHANGED <<run_arguments, unix_times_sec, num_radar_files_read>>
    /\ UNCHANGED <<linkVars, dedupVars, trackVars, findVars, reanalysisVars,
                   trackingRunVars, joinVars>>

\* Lines 633-653: the check passes and the radar files of the period are
\* listed, in time order; no file is read yet.
RunFindInputRadarFiles ==
    /\ run_pc = "call"
    /\ ArgumentsPassCheck(run_arguments)
    /\ \E n \in 0..MaxRunTimes :
           unix_times_sec' = [i \in 1..n |-> RunFirstTime + RunTimeStep * (i - 1)]
    /\ run_pc' = "loop"
    /\ UNCHANGED <<run_arguments, num_radar_files_read>>
    /\ UNCHANGED <<linkVars, dedupVars, trackVars, findVars, reanalysisVars,
                   trackingRunVars, joinVars>>

\* One pass of the loop of lines 655-708: the radar file of the time step is
\* read (lines 659-674) and its maxima are found, thinned and linked.
RunProcessRadarFile ==
    /\ run_pc = "loop"
    /\ num_radar_files_read < Len(unix_times_sec)
    /\ num_radar_files_read' = num_radar_files_read + 1
    /\ run_pc' = "loop"
    /\ UNCHANGED <<run_arguments, unix_times_sec>>
    /\ UNCHANGED <<linkVars, dedupVars, trackVars, findVars, reanalysisVars,
                   trackingRunVars, joinVars>>

\* The same pass when dilation.dilate_2d_matrix, called at line 152 with the
\* grid that was just read, refuses the half-width.  The dilation module is
\* not among the modelled sources: it may refuse a half-width <= 0 or not.
RunProcessRadarFileRaises ==
    /\ run_pc = "loop"
    /\ num_radar_files_read < Len(unix_times_sec)
    /\ run_arguments.half_width_for_max_filter_pixels <= 0
    /\ num_radar_files_read' = num_radar_files_read + 1
    /\ run_pc' = "raised"
    /\ UNCHANGED <<run_arguments, unix_times_sec>>
    /\ UNCHANGED <<linkVars, dedupVars, trackVars, findVars, reanalysisVars,
                   trackingRunVars, joinVars>>

\* Lines 710-715: the tracks are assembled, short tracks are removed and the
\* table is returned.  unix_times_sec[0] of line 714 raises IndexError if no
\* radar file was found.
RunReturnTable ==
    /\ run_pc = "loop"
    /\ num_radar_files_read = Len(unix_times_sec)
    /\ run_pc' = IF Len(unix_times_sec) = 0 THEN "raised" ELSE "returned"
    /\ UNCHANGED <<run_arguments, unix_times_sec, num_radar_files_read>>
    /\ UNCHANGED <<linkVars, dedupVars, trackVars, findVars, reanalysisVars,
                   trackingRunVars, joinVars>>

RunNext ==
    \/ RunRejectArguments
    \/ RunFindInputRadarFiles
    \/ RunProcessRadarFile
    \/ RunProcessRadarFileRaises
    \/ RunReturnTable

InitRun ==
    /\ RunInit /\ LinkIdle /\ DedupIdle /\ TrackIdle /\ FindIdle
    /\ ReanalysisIdle /\ TrackingRunIdle /\ JoinIdle
SpecRun == InitRun /\ [][RunNext]_vars

(***************************************************************************)
(* Claim about run_tracking, checked under SpecRun.                        *)
(***************************************************************************)
\* One of the numeric arguments is invalid: a max-filter half-width <= 0, a
\* negative minimum track duration, or a negative link time or link speed.
ConfigurationIsInvalid ==
    \/ run_arguments.half_width_for_max_filter_pixels <= 0
    \/ run_arguments.min_track_duration_seconds < 0
    \/ run_arguments.max_link_time_seconds < 0
    \/ run_arguments.max_link_distance_m_s01 < 0

\* C15: run_tracking rejects an invalid configuration with an error at call
\* time: with such a configuration it never gets to its loop and never reads
\* a radar file.
C15_InvalidConfigurationRejected ==
    (run_pc # "idle" /\ ConfigurationIsInvalid) =>
        /\ run_pc \in {"call", "raised"}
        /\ num_radar_files_read = 0

(***************************************************************************)
(* _find_local_maxima                                                      *)
(***************************************************************************)
\* Field values are integers in units of 0.5e-6, so that TOLERANCE (1e-6) is
\* two units.  NaN stands for numpy.nan; every operation on values treats it
\* apart.
TOLERANCE == 2
NaN == -1000000
IsNaN(value) == value = NaN

\* The grid: M rows and N columns; latitude and longitude (0.01 deg) of the
\* north-west grid point and the spacing of the grid points.
NumGridRows == 2
NumGridColumns == 3
NwGridPointLatDeg == 3500
NwGridPointLngDeg == 26500
GridSpacingDeg == 1
GridCells == (1..NumGridRows) \X (1..NumGridColumns)

\* Values of the radar field and of the half-width.
RadarValues == {NaN, 10, 11, 12}
NeighHalfWidths == {1, 2}

\* The cells of the square neighbourhood of a cell that lie in the grid.
NeighbourCells(cell, half_width) ==
    {other \in GridCells :
        /\ other[1] - cell[1] <= half_width
        /\ cell[1] - other[1] <= half_width
        /\ other[2] - cell[2] <= half_width
        /\ cell[2] - other[2] <= half_width}

\* dilation.dilate_2d_matrix with percentile level 100 (the dilation module
\* is not among the modelled sources): the largest value that is not NaN in
\* the neighbourhood of the cell, NaN if there is none.
DilatedValue(matrix, cell, half_width) ==
    LET values == {matrix[other[1]][other[2]] :
                       other \in NeighbourCells(cell, half_width)} \ {NaN}
    IN  IF values = {} THEN NaN
        ELSE CHOOSE v \in values : \A w \in values : w <= v

\* numpy.absolute(filtered - radar) of line 157: NaN if either value is NaN.
AbsoluteDifference(filtered_value, radar_value) ==
    IF IsNaN(filtered_value) \/ IsNaN(radar_value) THEN NaN
    ELSE IF filtered_value >= radar_value THEN filtered_value - radar_value
    ELSE radar_value - filtered_value

\* As IsBelowTolerance, but a difference equal to the tolerance passes.
IsAtMostTolerance(difference) ==
    ~IsNaN(difference) /\ difference <= TOLERANCE

\* difference < TOLERANCE of line 157; a comparison with NaN is false.
IsBelowTolerance(difference) ==
    ~IsNaN(difference) /\ difference < TOLERANCE

\* Row-major position of a cell, the order of numpy.where.
CellNumber(cell) == (cell[1] - 1) * NumGridColumns + cell[2]

\* The cells that numpy.where finds (lines 156-159), as a set.
MaxCells(matrix, half_width) ==
    {cell \in GridCells :
        IsBelowTolerance(AbsoluteDifference(
            DilatedValue(matrix, cell, half_width),
            matrix[cell[1]][cell[2]]))}

\* The cells of a set in row-major order.
RECURSIVE CellsInOrder(_)
CellsInOrder(cells) ==
    IF cells = {} THEN <<>>
    ELSE LET first == CHOOSE c \in cells :
                          \A d \in cells : CellNumber(c) <= CellNumber(d)
         IN  <<first>> \o CellsInOrder(cells \ {first})

\* radar_utils.rowcol_to_latlng (the module is not among the modelled
\* sources): rows count southwards and columns eastwards from the
\* north-west grid point.
RowColToLatLng(cell) ==
    [latitude_deg |-> NwGridPointLatDeg - GridSpacingDeg * (cell[1] - 1),
     longitude_deg |-> NwGridPointLngDeg + GridSpacingDeg * (cell[2] - 1)]

\* The orders of the given positions of max_values in which the values
\* descend.
RECURSIVE DescendingOrders(_, _)
DescendingOrders(max_values, positions) ==
    IF positions = {} THEN {<<>>}
    ELSE UNION {{<<p>> \o rest :
                    rest \in DescendingOrders(max_values, positions \ {p})} :
                p \in {q \in positions :
                          \A r \in positions : max_values[q] >= max_values[r]}}

\* The orders that numpy.argsort(-max_values) of line 171 may return: it
\* sorts by descending value and does not say in which order equal values
\* come.
SortIndices(max_values) == DescendingOrders(max_values, DOMAIN max_values)

\* The whole function (lines 152-178).
FindLocalMaxima ==
    /\ find_pc = "call"
    /\ \E max_cells \in {CellsInOrder(MaxCells(radar_matrix,
                                               neigh_half_width_in_pixels))} :
        \E max_values \in {[m \in DOMAIN max_cells |->
                               radar_matrix[max_cells[m][1]][max_cells[m][2]]]} :
         \E sort_indices \in SortIndices(max_values) :
            local_max_dict_found' =
                [latitudes_deg |-> [m \in DOMAIN max_cells |->
                     RowColToLatLng(max_cells[sort_indices[m]]).latitude_deg],
                 longitudes_deg |-> [m \in DOMAIN max_cells |->
                     RowColToLatLng(max_cells[sort_indices[m]]).longitude_deg],
                 max_values |-> [m \in DOMAIN max_cells |->
                     max_values[sort_indices[m]]]]
    /\ find_pc' = "returned"
    /\ UNCHANGED <<radar_matrix, neigh_half_width_in_pixels>>
    /\ UNCHANGED <<linkVars, dedupVars, trackVars, runVars, reanalysisVars,
                   trackingRunVars, joinVars>>

\* State at the call.
FindInit ==
    /\ radar_matrix \in [1..NumGridRows -> [1..NumGridColumns -> RadarValues]]
    /\ neigh_half_width_in_pixels \in NeighHalfWidths
    /\ find_pc = "call"
    /\ local_max_dict_found = <<>>

FindNext == FindLocalMaxima

InitFind ==
    /\ FindInit /\ LinkIdle /\ DedupIdle /\ TrackIdle /\ RunIdle
    /\ ReanalysisIdle /\ TrackingRunIdle /\ JoinIdle
SpecFind == InitFind /\ [][FindNext]_vars

(***************************************************************************)
(* Claim about _find_local_maxima, checked under SpecFind.                 *)
(***************************************************************************)
FoundRange == DOMAIN local_max_dict_found.max_values
RadarValueAt(cell) == radar_matrix[cell[1]][cell[2]]
\* The m-th reported maximum is the grid cell: its coordinates are those of
\* the cell and its value is the value of the field there.
FoundIsCell(m, cell) ==
    /\ local_max_dict_found.latitudes_deg[m] =
           NwGridPointLatDeg - GridSpacingDeg * (cell[1] - 1)
    /\ local_max_dict_found.longitudes_deg[m] =
           NwGridPointLngDeg + GridSpacingDeg * (cell[2] - 1)
    /\ local_max_dict_found.max_values[m] = RadarValueAt(cell)
\* other lies in the square neighbourhood of cell.
InNeighbourhood(cell, other) ==
    /\ other[1] - cell[1] \in -neigh_half_width_in_pixels..neigh_half_width_in_pixels
    /\ other[2] - cell[2] \in -neigh_half_width_in_pixels..neigh_half_width_in_pixels
\* The value of the cell is within the tolerance of the largest value of the
\* field in its neighbourhood: no value there exceeds it by the tolerance.
IsNeighbourhoodMax(cell) ==
    \A other \in GridCells :
        (InNeighbourhood(cell, other) /\ RadarValueAt(other) # NaN) =>
            RadarValueAt(other) - RadarValueAt(cell) < TOLERANCE

\* C16: every maximum that _find_local_maxima reports is a grid cell whose
\* value is not NaN and is within the tolerance (1e-6) of the maximum of the
\* field over the square neighbourhood of the half-width around it; so a
\* grid of NaN only yields no maximum.
C16_OnlyNeighbourhoodMaxima ==
    find_pc = "returned" =>
        /\ \A m \in FoundRange :
               \E cell \in GridCells :
                   /\ FoundIsCell(m, cell)
                   /\ RadarValueAt(cell) # NaN
                   /\ IsNeighbourhoodMax(cell)
        /\ (\A cell \in GridCells : RadarValueAt(cell) = NaN) =>
               FoundRange = {}

\* A cell is reported although a neighbour is larger, by less than the
\* tolerance; the field has a NaN cell and a cell that is not NaN and not
\* reported.
C16_Witness ==
    /\ find_pc = "returned"
    /\ \E m \in FoundRange, cell, other \in GridCells :
           /\ FoundIsCell(m, cell)
           /\ InNeighbourhood(cell, other)
           /\ RadarValueAt(other) = RadarValueAt(cell) + 1
    /\ \E cell \in GridCells : RadarValueAt(cell) = NaN
    /\ \E cell \in GridCells :
           /\ RadarValueAt(cell) # NaN
           /\ \A m \in FoundRange : ~FoundIsCell(m, cell)

(***************************************************************************)
(* echo_top_tracking._reanalyze_tracks, with _storm_objects_to_tracks,     *)
(* _get_extrapolation_error and _find_nearby_tracks.                       *)
(*                                                                         *)
(* echo_top_tracking.py is not in the repository snapshot; its unit tests  *)
(* (echo_top_tracking_test.py) are.  The functions are modelled from the   *)
(* specification (section 4.6), and where the tests pin the behaviour      *)
(* down (which id survives a join, the tables of the five-track case) the  *)
(* model follows the tests.                                                *)
(*                                                                         *)
(* Latitudes and longitudes are in tenths of a degree.  The distance       *)
(* between two points is taken on a plane, as the larger of the two        *)
(* coordinate differences, with the same length of a degree in both        *)
(* directions; on one parallel this is the distance along the parallel.    *)
(***************************************************************************)
\* Length of a degree of latitude (test constant, 60 nautical miles).
DEG_LAT_TO_METRES == 111120
TenthDegreeToMetres == DEG_LAT_TO_METRES \div 10

\* One row of the table of storm objects.
StormObject(storm_id, unix_time_sec, centroid_lat_deg, centroid_lng_deg) ==
    [storm_id |-> storm_id, unix_time_sec |-> unix_time_sec,
     centroid_lat_deg |-> centroid_lat_deg,
     centroid_lng_deg |-> centroid_lng_deg]

\* The five-track case of the unit tests: tracks C (times 0-1), B (3-4) and
\* A (6-7) move east along one parallel at 0.1 deg/s, D (0-1) moves the same
\* way further east and E (4-5) sits far away.
STORM_OBJECT_TABLE_BEFORE_REANALYSIS ==
    << StormObject("A", 6, 535, 1135), StormObject("A", 7, 535, 1136),
       StormObject("B", 3, 535, 1132), StormObject("B", 4, 535, 1133),
       StormObject("C", 0, 535, 1129), StormObject("C", 1, 535, 1130),
       StormObject("D", 0, 535, 1132), StormObject("D", 1, 535, 1133),
       StormObject("E", 4, 476, 3073), StormObject("E", 5, 476, 3073) >>

MAX_JOIN_TIME_SECONDS == 2
MAX_EXTRAP_ERROR_M_S01 == 1000

\* ---- _storm_objects_to_tracks ---------------------------------------------
\* Rows of the storm-object table that carry the given id.
ObjectIndicesOfTrack(object_table, storm_id) ==
    {k \in DOMAIN object_table : object_table[k].storm_id = storm_id}

\* The first and the last storm object of a track.
FirstObjectOfTrack(object_table, storm_id) ==
    object_table[CHOOSE k \in ObjectIndicesOfTrack(object_table, storm_id) :
        \A h \in ObjectIndicesOfTrack(object_table, storm_id) :
            object_table[k].unix_time_sec <= object_table[h].unix_time_sec]

\* The object of a track that stands last in the table, whatever its time.
LastRowOfTrack(object_table, storm_id) ==
    object_table[SetMax(ObjectIndicesOfTrack(object_table, storm_id))]

LastObjectOfTrack(object_table, storm_id) ==
    object_table[CHOOSE k \in ObjectIndicesOfTrack(object_table, storm_id) :
        \A h \in ObjectIndicesOfTrack(object_table, storm_id) :
            object_table[h].unix_time_sec <= object_table[k].unix_time_sec]

\* The summary row of one track: start and end time and position.
StormTrackRow(object_table, storm_id) ==
    LET first_object == FirstObjectOfTrack(object_table, storm_id)
        last_object == LastObjectOfTrack(object_table, storm_id)
    IN  [storm_id |-> storm_id,
         start_time_unix_sec |-> first_object.unix_time_sec,
         end_time_unix_sec |-> last_object.unix_time_sec,
         start_latitude_deg |-> first_object.centroid_lat_deg,
         end_latitude_deg |-> last_object.centroid_lat_deg,
         start_longitude_deg |-> first_object.centroid_lng_deg,
         end_longitude_deg |-> last_object.centroid_lng_deg]

\* Rows of the storm-object table at which an id appears for the first time.
FirstRowsOfTracks(object_table) ==
    SelectSeq([k \in DOMAIN object_table |-> k],
              LAMBDA k : \A h \in 1..(k - 1) :
                  object_table[h].storm_id # object_table[k].storm_id)

\* _storm_objects_to_tracks, from scratch: one row per id.
StormObjectsToTracks(object_table) ==
    [n \in DOMAIN FirstRowsOfTracks(object_table) |->
        StormTrackRow(object_table,
                      object_table[FirstRowsOfTracks(object_table)[n]].storm_id)]

\* A recomputation that leaves the row as it was.
KeepStormTrackRow(object_table, track_table, recompute_for_id) == track_table

\* A recomputation that rebuilds every row, not only the row asked for.
RecomputeEveryStormTrackRow(object_table, track_table, recompute_for_id) ==
    [i \in DOMAIN track_table |->
        StormTrackRow(object_table, track_table[i].storm_id)]

\* _storm_objects_to_tracks with recompute_for_id: only that id's row is
\* recomputed.
RecomputeStormTrackRow(object_table, track_table, recompute_for_id) ==
    [i \in DOMAIN track_table |->
        IF track_table[i].storm_id = recompute_for_id
        THEN StormTrackRow(object_table, recompute_for_id)
        ELSE track_table[i]]

\* ---- _get_extrapolation_error ----------------------------------------------
AbsoluteValue(x) == IF x < 0 THEN -x ELSE x

LargerOf(x, y) == IF x < y THEN y ELSE x

\* Duration of the early track; its velocity is its displacement from start
\* to end over this duration, and zero for a track with one position.
TrackDurationSec(track_row) ==
    track_row.end_time_unix_sec - track_row.start_time_unix_sec

\* The extrapolation error is a fraction with this denominator.
ErrorDenominator(early_row) ==
    IF TrackDurationSec(early_row) = 0 THEN 1 ELSE TrackDurationSec(early_row)

\* One coordinate of (start of late track - extrapolated end of early
\* track), times ErrorDenominator: the early track's end is moved with the
\* early track's velocity to the late track's start time.
CoordinateErrorNumerator(early_start, early_end, late_start, duration_sec, time_diff_sec) ==
    IF duration_sec = 0
    THEN AbsoluteValue(late_start - early_end)
    ELSE AbsoluteValue(duration_sec * (late_start - early_end)
                       - (early_end - early_start) * time_diff_sec)

\* Extrapolation error in tenths of a degree, times ErrorDenominator.
ExtrapErrorNumerator(early_row, late_row) ==
    LET time_diff_sec ==
            late_row.start_time_unix_sec - early_row.end_time_unix_sec
    IN  LargerOf(
            CoordinateErrorNumerator(
                early_row.start_latitude_deg, early_row.end_latitude_deg,
                late_row.start_latitude_deg, TrackDurationSec(early_row),
                time_diff_sec),
            CoordinateErrorNumerator(
                early_row.start_longitude_deg, early_row.end_longitude_deg,
                late_row.start_longitude_deg, TrackDurationSec(early_row),
                time_diff_sec))

\* ---- _find_nearby_tracks ---------------------------------------------------
\* Position of the row with the given id in the table of tracks.
TrackIndexOf(track_table, storm_id) ==
    CHOOSE i \in DOMAIN track_table : track_table[i].storm_id = storm_id

\* The time window with no lower end: a track that ends after the late
\* track starts passes as well.
IsInTimeWindowNoLowerEnd(time_diff_sec, max_time_diff_seconds) ==
    time_diff_sec <= max_time_diff_seconds

\* The early track ends before the late track starts, by no more than
\* max_time_diff_seconds.
IsInTimeWindow(time_diff_sec, max_time_diff_seconds) ==
    0 < time_diff_sec /\ time_diff_sec <= max_time_diff_seconds

\* Extrapolation error over time difference is at most
\* max_extrap_error_m_s01 (both sides times time difference and denominator).
IsWithinExtrapError(early_row, late_row, max_extrap_error) ==
    ExtrapErrorNumerator(early_row, late_row) * TenthDegreeToMetres
        <= max_extrap_error
           * (late_row.start_time_unix_sec - early_row.end_time_unix_sec)
           * ErrorDenominator(early_row)

IsNearbyTrack(early_row, late_row, max_time_diff_seconds, max_extrap_error) ==
    /\ IsInTimeWindow(
           late_row.start_time_unix_sec - early_row.end_time_unix_sec,
           max_time_diff_seconds)
    /\ IsWithinExtrapError(early_row, late_row, max_extrap_error)

\* _find_nearby_tracks: positions (1-based, ascending) of the tracks that
\* are nearby predecessors of the late track; <<>> stands for None.
FindNearbyTracks(track_table, late_track_id, max_time_diff_seconds, max_extrap_error) ==
    SelectSeq([j \in DOMAIN track_table |-> j],
              LAMBDA j : IsNearbyTrack(
                  track_table[j],
                  track_table[TrackIndexOf(track_table, late_track_id)],
                  max_time_diff_seconds, max_extrap_error))

\* The nearby track with the lowest extrapolation error (the first such one).
BestNearbyTrack(track_table, late_track_id, nearby_indices) ==
    LET late_row == track_table[TrackIndexOf(track_table, late_track_id)]
        candidates == {nearby_indices[n] : n \in DOMAIN nearby_indices}
        ErrorOf(j) == ExtrapErrorNumerator(track_table[j], late_row)
        DenominatorOf(j) == ErrorDenominator(track_table[j])
    IN  CHOOSE j \in candidates : \A k \in candidates :
            \/ ErrorOf(j) * DenominatorOf(k) < ErrorOf(k) * DenominatorOf(j)
            \/ /\ ErrorOf(j) * DenominatorOf(k) = ErrorOf(k) * DenominatorOf(j)
               /\ j <= k

\* ---- _reanalyze_tracks ------------------------------------------------------
\* The id under which a join would leave the EARLY track's id.
JoinedStormIdOfEarlyTrack(early_track_id, late_track_id) == early_track_id

\* The id that the joined track carries: the late track's (in the unit
\* tests the tracks C, B and A end as A, the latest of them).
JoinedStormId(early_track_id, late_track_id) == late_track_id

\* A relabelling that reaches only the objects that were given with the id,
\* not those that took it in an earlier join.
RelabelGivenStormObjects(object_table, old_storm_id, new_storm_id) ==
    [k \in DOMAIN object_table |->
        IF storm_object_table_before_reanalysis[k].storm_id = old_storm_id
        THEN [object_table[k] EXCEPT !.storm_id = new_storm_id]
        ELSE object_table[k]]

\* The storm-object table with every object of one track relabelled.
RelabelStormObjects(object_table, old_storm_id, new_storm_id) ==
    [k \in DOMAIN object_table |->
        IF object_table[k].storm_id = old_storm_id
        THEN [object_table[k] EXCEPT !.storm_id = new_storm_id]
        ELSE object_table[k]]

\* The row of the track that gave up its id stays in the table.
KeepStormTrack(track_table, storm_id) == track_table

\* The table of tracks without the row of one id.
RemoveStormTrack(track_table, storm_id) ==
    SelectSeq(track_table, LAMBDA row : row.storm_id # storm_id)

\* Tracks for which _find_nearby_tracks finds a predecessor.
LateTracksToJoin ==
    {i \in DOMAIN storm_track_table :
        FindNearbyTracks(storm_track_table, storm_track_table[i].storm_id,
                         max_join_time_sec, max_extrap_error_m_s01) # <<>>}

\* Start of _reanalyze_tracks: the table of tracks is made from scratch.
StartReanalysis ==
    /\ reanalysis_pc = "call"
    /\ storm_track_table' = StormObjectsToTracks(this_storm_object_table)
    /\ reanalysis_pc' = "loop"
    /\ UNCHANGED <<this_storm_object_table, max_join_time_sec,
                   max_extrap_error_m_s01, num_reanalysis_passes,
                   storm_object_table_before_reanalysis,
                   storm_object_table_after_reanalysis>>
    /\ UNCHANGED <<linkVars, dedupVars, trackVars, runVars, findVars,
                   trackingRunVars, joinVars>>

\* One join: a late track takes in its best nearby predecessor.  The
\* objects of the track that gives up its id are relabelled, its row leaves
\* the table of tracks and the row of the joined track is recomputed.  The
\* order in which late tracks are tried is left open.
JoinNearbyTrack ==
    /\ reanalysis_pc = "loop"
    /\ \E i \in LateTracksToJoin :
        LET late_track_id == storm_track_table[i].storm_id
            nearby_indices ==
                FindNearbyTracks(storm_track_table, late_track_id,
                                 max_join_time_sec, max_extrap_error_m_s01)
            early_track_id ==
                storm_track_table[BestNearbyTrack(
                    storm_track_table, late_track_id, nearby_indices)].storm_id
            joined_id == JoinedStormId(early_track_id, late_track_id)
            removed_id == IF joined_id = late_track_id
                          THEN early_track_id ELSE late_track_id
            new_object_table ==
                RelabelStormObjects(this_storm_object_table, removed_id,
                                    joined_id)
        IN  /\ this_storm_object_table' = new_object_table
            /\ storm_track_table' =
                   RecomputeStormTrackRow(
                       new_object_table,
                       RemoveStormTrack(storm_track_table, removed_id),
                       joined_id)
    /\ UNCHANGED <<max_join_time_sec, max_extrap_error_m_s01, reanalysis_pc,
                   num_reanalysis_passes, storm_object_table_before_reanalysis,
                   storm_object_table_after_reanalysis>>
    /\ UNCHANGED <<linkVars, dedupVars, trackVars, runVars, findVars,
                   trackingRunVars, joinVars>>

\* Return of _reanalyze_tracks: no track has a nearby predecessor left.
ReturnReanalyzedTable ==
    /\ reanalysis_pc = "loop"
    /\ LateTracksToJoin = {}
    /\ reanalysis_pc' = "returned"
    /\ storm_object_table_after_reanalysis' =
           IF num_reanalysis_passes = 1 THEN this_storm_object_table
           ELSE storm_object_table_after_reanalysis
    /\ UNCHANGED <<this_storm_object_table, storm_track_table,
                   max_join_time_sec, max_extrap_error_m_s01,
                   num_reanalysis_passes, storm_object_table_before_reanalysis>>
    /\ UNCHANGED <<linkVars, dedupVars, trackVars, runVars, findVars,
                   trackingRunVars, joinVars>>

\* The caller gives the returned table to _reanalyze_tracks once more.
ReanalyzeAgain ==
    /\ reanalysis_pc = "returned"
    /\ num_reanalysis_passes = 1
    /\ reanalysis_pc' = "call"
    /\ num_reanalysis_passes' = 2
    /\ UNCHANGED <<this_storm_object_table, storm_track_table,
                   max_join_time_sec, max_extrap_error_m_s01,
                   storm_object_table_before_reanalysis,
                   storm_object_table_after_reanalysis>>
    /\ UNCHANGED <<linkVars, dedupVars, trackVars, runVars, findVars,
                   trackingRunVars, joinVars>>

\* Storm-object tables under check: three tracks on one parallel, A and B of
\* one or two objects and C of one object, at any times (so each of them can
\* be the earliest or the latest), besides the five-track case of the tests.
ReanalysisTimes == 0..MaxReanalysisTime
ReanalysisLatitudes == {535}
ReanalysisLongitudes == {1130, 1131, 1132}
ReanalysisLngSteps == {0, 1}
ReanalysisMaxJoinTimes == {1, MAX_JOIN_TIME_SECONDS}
ReanalysisMaxExtrapErrors == {MAX_EXTRAP_ERROR_M_S01, TenthDegreeToMetres}

TracksOfOneObject(storm_id) ==
    {<<StormObject(storm_id, t, lat, lng)>> :
        t \in ReanalysisTimes, lat \in ReanalysisLatitudes,
        lng \in ReanalysisLongitudes}

TracksOfTwoObjects(storm_id) ==
    UNION {
        {<<StormObject(storm_id, t, lat, start[1]),
           StormObject(storm_id, t + 1, lat, start[1] + start[2])>> :
            t \in {u \in ReanalysisTimes : u + 1 \in ReanalysisTimes},
            lat \in ReanalysisLatitudes} :
        start \in {s \in ReanalysisLongitudes \X ReanalysisLngSteps :
                      s[1] + s[2] \in ReanalysisLongitudes}}

TracksUnderCheck(storm_id) ==
    TracksOfOneObject(storm_id) \cup TracksOfTwoObjects(storm_id)

StormObjectTablesUnderCheck ==
    {track_a \o track_b \o track_c :
        track_a \in TracksUnderCheck("A"), track_b \in TracksUnderCheck("B"),
        track_c \in TracksOfOneObject("C")}
    \cup {STORM_OBJECT_TABLE_BEFORE_REANALYSIS}

ReanalysisInit ==
    /\ this_storm_object_table \in StormObjectTablesUnderCheck
    /\ storm_object_table_before_reanalysis = this_storm_object_table
    /\ storm_object_table_after_reanalysis = <<>>
    /\ storm_track_table = <<>>
    /\ max_join_time_sec \in ReanalysisMaxJoinTimes
    /\ max_extrap_error_m_s01 \in ReanalysisMaxExtrapErrors
    /\ reanalysis_pc = "call"
    /\ num_reanalysis_passes = 1

ReanalysisNext ==
    \/ StartReanalysis
    \/ JoinNearbyTrack
    \/ ReturnReanalyzedTable
    \/ ReanalyzeAgain

InitReanalysis ==
    /\ ReanalysisInit /\ LinkIdle /\ DedupIdle /\ TrackIdle /\ RunIdle
    /\ FindIdle /\ TrackingRunIdle /\ JoinIdle
SpecReanalysis == InitReanalysis /\ [][ReanalysisNext]_vars

(***************************************************************************)
(* Claims about _reanalyze_tracks and _find_nearby_tracks                  *)
(* (SpecReanalysis).                                                       *)
(***************************************************************************)
\* Ids in a table of storm objects.
StormIdsIn(object_table) ==
    {object_table[k].storm_id : k \in DOMAIN object_table}

\* The first call of _reanalyze_tracks joined at least two tracks.
FirstPassJoinedTracks ==
    /\ storm_object_table_after_reanalysis # <<>>
    /\ storm_object_table_after_reanalysis # storm_object_table_before_reanalysis

OriginalTrackRow(storm_id) ==
    StormTrackRow(storm_object_table_before_reanalysis, storm_id)

\* Storm objects that no longer carry the id they were given with.
RelabelledObjects ==
    {k \in DOMAIN this_storm_object_table :
        this_storm_object_table[k].storm_id
            # storm_object_table_before_reanalysis[k].storm_id}

\* The first call is in its loop or has returned.
InFirstReanalysis ==
    num_reanalysis_passes = 1 /\ reanalysis_pc \in {"loop", "returned"}

\* The current summary row of an id.
CurrentTrackRow(storm_id) ==
    storm_track_table[TrackIndexOf(storm_track_table, storm_id)]

\* Ids that the objects now under the given id were given with.
OriginalIdsUnder(storm_id) ==
    {storm_object_table_before_reanalysis[k].storm_id :
        k \in ObjectIndicesOfTrack(this_storm_object_table, storm_id)}

SameStart(row, other_row) ==
    /\ row.start_time_unix_sec = other_row.start_time_unix_sec
    /\ row.start_latitude_deg = other_row.start_latitude_deg
    /\ row.start_longitude_deg = other_row.start_longitude_deg

SameEnd(row, other_row) ==
    /\ row.end_time_unix_sec = other_row.end_time_unix_sec
    /\ row.end_latitude_deg = other_row.end_latitude_deg
    /\ row.end_longitude_deg = other_row.end_longitude_deg

STORM_OBJECT_TABLE_AFTER_REANALYSIS ==
    << StormObject("A", 6, 535, 1135), StormObject("A", 7, 535, 1136),
       StormObject("A", 3, 535, 1132), StormObject("A", 4, 535, 1133),
       StormObject("A", 0, 535, 1129), StormObject("A", 1, 535, 1130),
       StormObject("D", 0, 535, 1132), StormObject("D", 1, 535, 1133),
       StormObject("E", 4, 476, 3073), StormObject("E", 5, 476, 3073) >>

\* The first call was given the five-track case with the thresholds of the
\* unit tests.
IsFiveTrackCase ==
    /\ storm_object_table_before_reanalysis = STORM_OBJECT_TABLE_BEFORE_REANALYSIS
    /\ max_join_time_sec = MAX_JOIN_TIME_SECONDS
    /\ max_extrap_error_m_s01 = MAX_EXTRAP_ERROR_M_S01

\* The call on the five-track case returns A, B and C under one id and
\* leaves D and E alone.
FiveTrackCaseJoined ==
    (IsFiveTrackCase /\ reanalysis_pc = "returned") =>
        /\ this_storm_object_table = STORM_OBJECT_TABLE_AFTER_REANALYSIS
        /\ StormIdsIn(this_storm_object_table) = {"A", "D", "E"}

\* Storm objects that carry one id before a step carry one id after it.
JoinedObjectsStayJoined ==
    \A k \in DOMAIN this_storm_object_table :
        \A h \in DOMAIN this_storm_object_table :
            this_storm_object_table[k].storm_id
                    = this_storm_object_table[h].storm_id
                => this_storm_object_table'[k].storm_id
                       = this_storm_object_table'[h].storm_id

\* C19: joins compose within one call.  Objects that share an id keep
\* sharing one through every later join (so if X is joined to Y and Y to Z,
\* the objects of X, Y and Z end under one id), and the five-track case with
\* max_join_time 2 s and max error 1000 m/s ends with A, B and C under one
\* id and exactly the ids {A, D, E}.
C19_JoinsCompose ==
    /\ []FiveTrackCaseJoined
    /\ [][JoinedObjectsStayJoined]_vars

\* The first call on the five-track case has returned the ids {A, D, E}.
C19_Witness ==
    /\ IsFiveTrackCase
    /\ num_reanalysis_passes = 1
    /\ reanalysis_pc = "returned"
    /\ StormIdsIn(this_storm_object_table) = {"A", "D", "E"}
    /\ \A k \in 1..6 : this_storm_object_table[k].storm_id = "A"

\* Ids of the tracks that _find_nearby_tracks returns for a late track, with
\* the thresholds of the call.
NearbyIdsFor(late_track_id) ==
    LET nearby_indices ==
            FindNearbyTracks(storm_track_table, late_track_id,
                             max_join_time_sec, max_extrap_error_m_s01)
    IN  [n \in DOMAIN nearby_indices |->
            storm_track_table[nearby_indices[n]].storm_id]

\* Distance in metres, times the early track's duration, between the start
\* of the late track and the point that the early track reaches when it
\* moves on from its end at its own speed; a track with no duration stays
\* at its end.
ClaimedErrorTimesDuration(early_row, late_row, start_field, end_field) ==
    LET duration_sec ==
            early_row.end_time_unix_sec - early_row.start_time_unix_sec
        time_diff_sec ==
            late_row.start_time_unix_sec - early_row.end_time_unix_sec
        reached_times_duration ==
            early_row[end_field] * duration_sec
                + (early_row[end_field] - early_row[start_field]) * time_diff_sec
        difference ==
            IF duration_sec = 0
            THEN late_row[start_field] - early_row[end_field]
            ELSE late_row[start_field] * duration_sec - reached_times_duration
    IN  TenthDegreeToMetres * (IF difference < 0 THEN -difference ELSE difference)

\* The early track qualifies as a predecessor of the late track.
QualifiesAsPredecessor(early_row, late_row) ==
    LET duration_sec ==
            early_row.end_time_unix_sec - early_row.start_time_unix_sec
        time_diff_sec ==
            late_row.start_time_unix_sec - early_row.end_time_unix_sec
        allowed_times_duration ==
            max_extrap_error_m_s01 * time_diff_sec
                * (IF duration_sec = 0 THEN 1 ELSE duration_sec)
    IN  /\ early_row.end_time_unix_sec < late_row.start_time_unix_sec
        /\ time_diff_sec <= max_join_time_sec
        /\ ClaimedErrorTimesDuration(early_row, late_row,
               "start_latitude_deg", "end_latitude_deg")
               <= allowed_times_duration
        /\ ClaimedErrorTimesDuration(early_row, late_row,
               "start_longitude_deg", "end_longitude_deg")
               <= allowed_times_duration

\* The table of tracks is the one made from the five-track case, before any
\* join.
AtFiveTrackTable ==
    /\ IsFiveTrackCase
    /\ reanalysis_pc = "loop"
    /\ this_storm_object_table = STORM_OBJECT_TABLE_BEFORE_REANALYSIS

\* C20: for a late track _find_nearby_tracks returns only tracks that end
\* before the late track starts, by at most max_time_diff_seconds, and whose
\* extrapolation error over that time difference is at most
\* max_extrap_error_m_s01; it returns none when no track qualifies; on the
\* five-track case it returns B for A, C for B and none for C, D and E.
C20_NearbyTracksQualify ==
    reanalysis_pc = "loop" =>
        /\ \A i \in DOMAIN storm_track_table :
            LET late_row == storm_track_table[i]
                nearby_indices ==
                    FindNearbyTracks(storm_track_table, late_row.storm_id,
                                     max_join_time_sec, max_extrap_error_m_s01)
            IN  /\ \A n \in DOMAIN nearby_indices :
                    /\ nearby_indices[n] \in DOMAIN storm_track_table
                    /\ QualifiesAsPredecessor(
                           storm_track_table[nearby_indices[n]], late_row)
                /\ (\A j \in DOMAIN storm_track_table :
                        ~QualifiesAsPredecessor(storm_track_table[j], late_row))
                       => nearby_indices = <<>>
        /\ AtFiveTrackTable =>
            /\ NearbyIdsFor("A") = <<"B">>
            /\ NearbyIdsFor("B") = <<"C">>
            /\ NearbyIdsFor("C") = <<>>
            /\ NearbyIdsFor("D") = <<>>
            /\ NearbyIdsFor("E") = <<>>

\* _find_nearby_tracks has a predecessor to return on the five-track case.
C20_Witness ==
    /\ AtFiveTrackTable
    /\ NearbyIdsFor("A") = <<"B">>
    /\ NearbyIdsFor("C") = <<>>

\* One row of the table of storm tracks.
StormTrack(storm_id, start_time, end_time, start_lat, end_lat, start_lng, end_lng) ==
    [storm_id |-> storm_id,
     start_time_unix_sec |-> start_time, end_time_unix_sec |-> end_time,
     start_latitude_deg |-> start_lat, end_latitude_deg |-> end_lat,
     start_longitude_deg |-> start_lng, end_longitude_deg |-> end_lng]

\* The table that test_storm_objects_to_tracks_from_scratch expects for the
\* five-track case.
STORM_TRACK_TABLE_BEFORE_REANALYSIS ==
    << StormTrack("A", 6, 7, 535, 535, 1135, 1136),
       StormTrack("B", 3, 4, 535, 535, 1132, 1133),
       StormTrack("C", 0, 1, 535, 535, 1129, 1130),
       StormTrack("D", 0, 1, 535, 535, 1132, 1133),
       StormTrack("E", 4, 5, 476, 476, 3073, 3073) >>

\* The table of tracks has just been made from scratch: the call is in its
\* loop and has joined nothing yet.
TrackTableIsFromScratch ==
    /\ reanalysis_pc = "loop"
    /\ \/ this_storm_object_table = storm_object_table_before_reanalysis
       \/ num_reanalysis_passes = 2

\* Valid times of the objects that carry an id.
TimesOfTrack(object_table, storm_id) ==
    {object_table[k].unix_time_sec :
        k \in ObjectIndicesOfTrack(object_table, storm_id)}

\* Some object of the id has this time and this position.
HasObjectAt(object_table, storm_id, time, lat, lng) ==
    \E k \in ObjectIndicesOfTrack(object_table, storm_id) :
        /\ object_table[k].unix_time_sec = time
        /\ object_table[k].centroid_lat_deg = lat
        /\ object_table[k].centroid_lng_deg = lng

\* C21: _storm_objects_to_tracks from scratch gives exactly one row per
\* distinct storm_id; the row's start and end time are the least and the
\* greatest valid time of the id's objects, and its start and end position
\* are those of the objects at these two times.
C21_OneRowPerStormId ==
    TrackTableIsFromScratch =>
        /\ Len(storm_track_table) = Cardinality(StormIdsIn(this_storm_object_table))
        /\ {storm_track_table[i].storm_id : i \in DOMAIN storm_track_table}
               = StormIdsIn(this_storm_object_table)
        /\ \A i \in DOMAIN storm_track_table :
            LET row == storm_track_table[i]
                times == TimesOfTrack(this_storm_object_table, row.storm_id)
            IN  /\ row.start_time_unix_sec \in times
                /\ row.end_time_unix_sec \in times
                /\ \A t \in times : /\ row.start_time_unix_sec <= t
                                    /\ t <= row.end_time_unix_sec
                /\ HasObjectAt(this_storm_object_table, row.storm_id,
                               row.start_time_unix_sec, row.start_latitude_deg,
                               row.start_longitude_deg)
                /\ HasObjectAt(this_storm_object_table, row.storm_id,
                               row.end_time_unix_sec, row.end_latitude_deg,
                               row.end_longitude_deg)
        /\ this_storm_object_table = STORM_OBJECT_TABLE_BEFORE_REANALYSIS
               => storm_track_table = STORM_TRACK_TABLE_BEFORE_REANALYSIS

\* A table of tracks made from scratch from objects that stand in the table
\* out of time order (track A after the joins of the five-track case).
C21_Witness ==
    /\ TrackTableIsFromScratch
    /\ num_reanalysis_passes = 2
    /\ this_storm_object_table = STORM_OBJECT_TABLE_AFTER_REANALYSIS
    /\ Len(storm_track_table) = 3

\* The table of tracks with the start time of one row overwritten, as
\* STORM_TRACK_TABLE_TAMPERED of the unit tests (row of C, start time -1).
TamperedTrackTable(track_table, i) ==
    [track_table EXCEPT ![i].start_time_unix_sec = -1]

\* C22: _storm_objects_to_tracks with recompute_for_id changes only the row
\* of that id and leaves every other row as it was, stale or not; and when
\* only that row was stale the result is the table made from scratch from
\* the same storm objects.
C22_RecomputeOneRow ==
    reanalysis_pc = "loop" =>
        /\ \A i \in DOMAIN storm_track_table :
            \A j \in DOMAIN storm_track_table :
                LET stale_table ==
                        TamperedTrackTable(
                            TamperedTrackTable(storm_track_table, i), j)
                    new_table ==
                        RecomputeStormTrackRow(
                            this_storm_object_table, stale_table,
                            storm_track_table[i].storm_id)
                IN  /\ DOMAIN new_table = DOMAIN stale_table
                    /\ new_table[i] = StormTrackRow(this_storm_object_table,
                                          storm_track_table[i].storm_id)
                    /\ \A h \in DOMAIN stale_table :
                        h # i => new_table[h] = stale_table[h]
                    /\ (i = j /\ TrackTableIsFromScratch)
                           => new_table = StormObjectsToTracks(this_storm_object_table)
        \* after a join only the row of the joined track is recomputed, and
        \* every row is then the row that the storm objects give
        /\ \A i \in DOMAIN storm_track_table :
            storm_track_table[i] = StormTrackRow(this_storm_object_table,
                                       storm_track_table[i].storm_id)

\* The five-track case after its first join: the row of the joined track was
\* recomputed and the table has four rows.
C22_Witness ==
    /\ IsFiveTrackCase
    /\ num_reanalysis_passes = 1
    /\ reanalysis_pc = "loop"
    /\ Len(storm_track_table) = 4
    /\ \E i \in DOMAIN storm_track_table :
        storm_track_table[i].end_time_unix_sec
            - storm_track_table[i].start_time_unix_sec = 4

\* Time and position of a storm object.
TimeAndPosition(storm_object) ==
    <<storm_object.unix_time_sec, storm_object.centroid_lat_deg,
      storm_object.centroid_lng_deg>>

\* Against the table given to the first call, the table of storm objects
\* differs in the id column only, no track is split and no id is added.
OnlyStormIdsRewritten ==
    reanalysis_pc # "idle" =>
        /\ Len(this_storm_object_table) = Len(storm_object_table_before_reanalysis)
        /\ \A k \in DOMAIN this_storm_object_table :
            TimeAndPosition(this_storm_object_table[k])
                = TimeAndPosition(storm_object_table_before_reanalysis[k])
        /\ \A k \in DOMAIN this_storm_object_table :
            \A h \in DOMAIN this_storm_object_table :
                storm_object_table_before_reanalysis[k].storm_id
                        = storm_object_table_before_reanalysis[h].storm_id
                    => this_storm_object_table[k].storm_id
                           = this_storm_object_table[h].storm_id
        /\ StormIdsIn(this_storm_object_table)
               \subseteq StormIdsIn(storm_object_table_before_reanalysis)
        /\ Cardinality(StormIdsIn(this_storm_object_table))
               <= Cardinality(StormIdsIn(storm_object_table_before_reanalysis))

\* A step that changes the table of storm objects takes exactly one id out
\* of use and brings none back; the table of tracks holds rows of ids in use
\* only, so a track that was merged is not tried again.
MergedTracksAreGone ==
    /\ StormIdsIn(this_storm_object_table') \subseteq StormIdsIn(this_storm_object_table)
    /\ this_storm_object_table' # this_storm_object_table
           => Cardinality(StormIdsIn(this_storm_object_table'))
                  = Cardinality(StormIdsIn(this_storm_object_table)) - 1
    /\ reanalysis_pc' = "loop"
           => \A i \in DOMAIN storm_track_table' :
                  storm_track_table'[i].storm_id
                      \in StormIdsIn(this_storm_object_table')

\* C26: _reanalyze_tracks rewrites the storm_id column only: number, order,
\* times and positions of the rows stay; no track is split; a merged track
\* is not joined again or revisited, each join leaves one id fewer, and the
\* call ends with no more distinct ids than it began with.
C26_OnlyIdsChange ==
    /\ []OnlyStormIdsRewritten
    /\ [][MergedTracksAreGone]_vars

\* The first call has returned with two joins made (three ids fewer than
\* rows would need: the five-track case).
C26_Witness ==
    /\ reanalysis_pc = "returned"
    /\ num_reanalysis_passes = 1
    /\ Cardinality(StormIdsIn(this_storm_object_table)) + 2
           = Cardinality(StormIdsIn(storm_object_table_before_reanalysis))

\* C25: every entry other than -1 that _link_local_maxima_in_time returns is
\* an index in [0, P-1] of a previous maximum at the smallest distance from
\* that current maximum among all P previous maxima; among previous maxima
\* at equally small distance the lowest index is chosen, and among current
\* maxima that contend for one previous maximum at equal distance the lowest
\* index keeps the link.
C25_NearestPreviousLinked ==
    (LinkReturned /\ HasPreviousDict) =>
        \A i \in DOMAIN current_to_previous_indices :
            current_to_previous_indices[i] # -1 =>
                LET j == current_to_previous_indices[i] + 1
                IN  /\ j \in PreviousRange
                    /\ \A k \in PreviousRange : LinkDistSq(i, j) <= LinkDistSq(i, k)
                    /\ \A k \in PreviousRange :
                        k < j => LinkDistSq(i, j) < LinkDistSq(i, k)
                    /\ \A m \in DOMAIN best_prev_indices :
                        (m < i /\ best_prev_indices[m] = j - 1)
                            => LinkDistSq(i, j) < LinkDistSq(m, j)

\* C27: _link_local_maxima_in_time never links a current maximum to a
\* previous maximum whose distance from it is greater than
\* max_link_distance_m_s01 * max_link_time_seconds, whatever the valid times
\* of the two snapshots are.
C27_NoLinkBeyondMaxDistance ==
    (LinkReturned /\ HasPreviousDict) =>
        \A i \in DOMAIN current_to_previous_indices :
            current_to_previous_indices[i] # -1 =>
                LinkDistSq(i, current_to_previous_indices[i] + 1)
                    <= Square(max_link_distance_m_s01 * max_link_time_seconds)

\* Position in the returned table of the row of a handled maximum: the
\* maxima come in the order of the time steps and, within a time step, in
\* the order of the snapshot.
RowOf(m) == Cardinality({q \in HandledMaxima : HandledBefore(q, m)}) + 1

\* The SPC dates on which ids were minted.
MintingSpcDates == {SpcDateOf(m) : m \in UnlinkedMaxima}
MintedOn(spc_date) == {m \in UnlinkedMaxima : SpcDateOf(m) = spc_date}

\* The table has one row per handled maximum, in time-step order and then
\* maximum order.
OneRowPerMaximum ==
    /\ Len(storm_object_table) = Cardinality(HandledMaxima)
    /\ \A m \in HandledMaxima :
         /\ storm_object_table[RowOf(m)].storm_id = StormIdOf(m)
         /\ storm_object_table[RowOf(m)].unix_time_sec =
                local_max_dict_by_time[m[1]].unix_time_sec
         /\ storm_object_table[RowOf(m)].centroid_lat_deg =
                local_max_dict_by_time[m[1]].latitudes_deg[m[2]]
         /\ storm_object_table[RowOf(m)].centroid_lng_deg =
                local_max_dict_by_time[m[1]].longitudes_deg[m[2]]

\* The state that the loop carries, at any point of the function.
CarriedStateAndTable ==
    track_pc \in {"loop", "returned"} =>
        /\ local_max_dict_by_time = <<>> =>
               /\ prev_numeric_id_used = -1
               /\ prev_spc_date_string = "00000101"
        /\ \A spc_date \in MintingSpcDates :
               {NumericPartOf(m) : m \in MintedOn(spc_date)}
                   = 0 .. (Cardinality(MintedOn(spc_date)) - 1)
        /\ OneRowPerMaximum

\* A step that changes the carried state is a time step in which an id is
\* minted for an unlinked maximum.
CarriedStateChangesOnlyAtMinting ==
    <<prev_numeric_id_used, prev_spc_date_string>>'
            # <<prev_numeric_id_used, prev_spc_date_string>>
        => /\ Len(local_max_dict_by_time') = Len(local_max_dict_by_time) + 1
           /\ \E j \in DOMAIN local_max_dict_by_time'[
                            Len(local_max_dict_by_time')].latitudes_deg :
                  local_max_dict_by_time'[Len(local_max_dict_by_time')]
                      .current_to_previous_indices[j] = -1

\* C30: in _local_maxima_to_storm_tracks the carried state
\* (prev_numeric_id_used, prev_spc_date_string) starts at (-1, "00000101")
\* and changes only in a time step that mints an id for an unlinked maximum
\* (a time step whose maxima all inherit their ids leaves it as it was); the
\* numbers of the ids minted on one SPC date are exactly 0, 1, ..., n-1; and
\* while the function runs and when it returns the table has exactly one
\* row per handled maximum, in time-step order and then maximum order.
C30_CarriedStateAndRowOrder ==
    /\ []CarriedStateAndTable
    /\ [][CarriedStateChangesOnlyAtMinting]_vars

\* The function returned a table of five rows or more; the maxima of one
\* time step all inherited their ids, and ids were minted on two SPC dates.
C30_Witness ==
    /\ track_pc = "returned"
    /\ Len(storm_object_table) >= 5
    /\ Cardinality(MintingSpcDates) = 2
    /\ \E i \in TimeSteps :
         /\ Len(local_max_dict_by_time[i].latitudes_deg) = 2
         /\ \A j \in 1..2 : LinkOf(<<i, j>>) # -1

(***************************************************************************)
(* _find_input_radar_files and the loop of run_tracking, followed by       *)
(* _local_maxima_to_storm_tracks and _remove_short_tracks: the tracking    *)
(* run as a whole, with the links that the linker computes.                *)
(*                                                                         *)
(* The module is Python 2 (print statement at line 656), so the           *)
(* variable of a list comprehension is a variable of the function: the     *)
(* comprehensions of lines 415 and 421 assign the loop variable i.         *)
(***************************************************************************)

\* A raw radar file: its name holds the SPC date of its directory and its
\* valid time.
RadarFileName(spc_date_number, unix_time_sec) ==
    [spc_date_number |-> spc_date_number, unix_time_sec |-> unix_time_sec]

\* myrorss_and_mrms_io._raw_file_name_to_time (line 412)
RawFileNameToTime(file_name) == file_name.unix_time_sec

\* First second of the SPC date with the given number, 0 for "19700101"
\* (time_conversion.MIN_SECONDS_INTO_SPC_DATE after midnight, lines 353-356).
SpcDateStartTime(spc_date_number) ==
    43200 + spc_date_number * DAYS_TO_SECONDS

\* Last second of the SPC date (MAX_SECONDS_INTO_SPC_DATE, lines 359-362).
SpcDateEndTime(spc_date_number) ==
    SpcDateStartTime(spc_date_number) + DAYS_TO_SECONDS - 1

\* Valid times of the files that may exist for an SPC date: two files five
\* minutes apart, for the first SPC date the last ones of the date, for the
\* others the first ones.
FileTimesOfSpcDate(spc_date_number) ==
    IF spc_date_number = 0
    THEN {SpcDateEndTime(0) - 599, SpcDateEndTime(0) - 299}
    ELSE {SpcDateStartTime(spc_date_number),
          SpcDateStartTime(spc_date_number) + 300}

\* What find_raw_files_one_spc_date may return for an SPC date (line 405):
\* any list of different files of the date, in any order.
FileNameListsOfSpcDate(spc_date_number) ==
    {<<>>}
    \cup {<<RadarFileName(spc_date_number, t)>> :
              t \in FileTimesOfSpcDate(spc_date_number)}
    \cup {<<RadarFileName(spc_date_number, t[1]),
            RadarFileName(spc_date_number, t[2])>> :
              t \in {u \in FileTimesOfSpcDate(spc_date_number)
                              \X FileTimesOfSpcDate(spc_date_number) :
                        u[1] # u[2]}}

\* Start of the period: the default (lines 352-356) or the time of the last
\* file of the first SPC date.
FilesStartTimes == {SpcDateStartTime(0), SpcDateEndTime(0) - 299}

\* End of the period: the default (lines 358-362) or the time of the first
\* file of the last SPC date.
FilesEndTimes(last_spc_date_number) ==
    {SpcDateEndTime(last_spc_date_number),
     IF last_spc_date_number = 0 THEN SpcDateEndTime(0) - 599
     ELSE SpcDateStartTime(last_spc_date_number)}

\* State at the call of _find_input_radar_files (lines 315-318), after the
\* checks of lines 347-376, which these arguments pass: the start time is
\* in the first SPC date and the end time in the last one.
FilesInit ==
    /\ \E num_spc_dates \in 1..MaxSpcDates :
         /\ spc_date_file_names \in
                {f \in [1..num_spc_dates ->
                           UNION {FileNameListsOfSpcDate(d) :
                                      d \in 0..(num_spc_dates - 1)}] :
                    \A d \in 1..num_spc_dates :
                        f[d] \in FileNameListsOfSpcDate(d - 1)}
         /\ end_time_unix_sec \in FilesEndTimes(num_spc_dates - 1)
    /\ start_time_unix_sec \in FilesStartTimes
    /\ num_spc_dates_searched = 0
    /\ file_dictionary = [radar_file_names |-> <<>>, unix_times_sec |-> <<>>]
    /\ files_pc = "call"
    /\ run_local_max_dict_by_time = <<>>

\* num_spc_dates of lines 386-387.
NumSpcDates == Len(spc_date_file_names)

\* error_checking.assert_is_greater(end_time_unix_sec, start_time_unix_sec),
\* line 378.
PeriodPassesCheck(start_time, end_time) == end_time > start_time

\* numpy.where(these_times_unix_sec >= start_time_unix_sec)[0], line 412:
\* 0-based positions, ascending.
KeepFromStart(these_times_unix_sec, start_time) ==
    WhereTrue([k \in DOMAIN these_times_unix_sec |->
                  these_times_unix_sec[k] >= start_time], 1)

\* numpy.where(these_times_unix_sec <= end_time_unix_sec)[0], line 418.
KeepUntilEnd(these_times_unix_sec, end_time) ==
    WhereTrue([k \in DOMAIN these_times_unix_sec |->
                  these_times_unix_sec[k] <= end_time], 1)

\* The loop variable as a list comprehension of Python 3 leaves it.
LoopVariableKept(i, keep_time_indices) == i

\* The loop variable i after "[these_file_names[i] for i in
\* keep_time_indices]" (lines 415 and 421): in Python 2 the comprehension
\* assigns i, which is left at the last index of the list if there is one.
LoopVariableAfterComprehension(i, keep_time_indices) ==
    IF keep_time_indices = <<>> THEN i
    ELSE keep_time_indices[Len(keep_time_indices)]

\* Lines 410-416 for the files of one SPC date: the files and the loop
\* variable after the test "if i == 0".
AfterStartFilter(these_file_names, i, start_time) ==
    IF i = 0
    THEN LET keep_time_indices ==
                 KeepFromStart([k \in DOMAIN these_file_names |->
                                   RawFileNameToTime(these_file_names[k])],
                               start_time)
         IN  [file_names |-> TakeIndices(these_file_names, keep_time_indices),
              i |-> LoopVariableAfterComprehension(i, keep_time_indices)]
    ELSE [file_names |-> these_file_names, i |-> i]

\* Lines 417-421: the files after the test "if i == num_spc_dates - 1".
AfterEndFilter(these_file_names, i, num_spc_dates, end_time) ==
    IF i = num_spc_dates - 1
    THEN TakeIndices(these_file_names,
                     KeepUntilEnd([k \in DOMAIN these_file_names |->
                                      RawFileNameToTime(these_file_names[k])],
                                  end_time))
    ELSE these_file_names

\* Line 378 raises: the period ends before it begins.
FilesRejectPeriod ==
    /\ files_pc = "call"
    /\ ~PeriodPassesCheck(start_time_unix_sec, end_time_unix_sec)
    /\ files_pc' = "raised"
    /\ UNCHANGED <<spc_date_file_names, start_time_unix_sec,
                   end_time_unix_sec, num_spc_dates_searched, file_dictionary,
                   run_local_max_dict_by_time>>
    /\ UNCHANGED <<linkVars, dedupVars, trackVars, runVars, findVars,
                   reanalysisVars, joinVars>>

\* Lines 378-402: the period passes the check and the loop begins.
FilesBeginSearch ==
    /\ files_pc = "call"
    /\ PeriodPassesCheck(start_time_unix_sec, end_time_unix_sec)
    /\ files_pc' = "loop"
    /\ UNCHANGED <<spc_date_file_names, start_time_unix_sec,
                   end_time_unix_sec, num_spc_dates_searched, file_dictionary,
                   run_local_max_dict_by_time>>
    /\ UNCHANGED <<linkVars, dedupVars, trackVars, runVars, findVars,
                   reanalysisVars, joinVars>>

\* One pass of the loop of lines 404-425, for the SPC date i (0-based).
FindRawFilesOneSpcDate ==
    /\ files_pc = "loop"
    /\ num_spc_dates_searched < NumSpcDates
    /\ LET i == num_spc_dates_searched
           after_start ==
               AfterStartFilter(spc_date_file_names[i + 1], i,
                                start_time_unix_sec)
           these_file_names ==
               AfterEndFilter(after_start.file_names, after_start.i,
                              NumSpcDates, end_time_unix_sec)
       IN  file_dictionary' =
               [radar_file_names |->
                    file_dictionary.radar_file_names \o these_file_names,
                unix_times_sec |->
                    file_dictionary.unix_times_sec \o
                        [k \in DOMAIN these_file_names |->
                            RawFileNameToTime(these_file_names[k])]]
    /\ num_spc_dates_searched' = num_spc_dates_searched + 1
    /\ UNCHANGED <<spc_date_file_names, start_time_unix_sec,
                   end_time_unix_sec, files_pc, run_local_max_dict_by_time>>
    /\ UNCHANGED <<linkVars, dedupVars, trackVars, runVars, findVars,
                   reanalysisVars, joinVars>>

\* numpy.argsort(unix_times_sec), line 427: 0-based positions in ascending
\* order of the times (no two files of a period have the same time).
ArgSort(unix_times) ==
    [k \in DOMAIN unix_times |->
        (CHOOSE p \in DOMAIN unix_times :
            Cardinality({q \in DOMAIN unix_times :
                            \/ unix_times[q] < unix_times[p]
                            \/ (unix_times[q] = unix_times[p] /\ q < p)})
                = k - 1) - 1]

\* Lines 427-434: times and file names are put in the order of the times
\* and returned.
FilesReturnDictionary ==
    /\ files_pc = "loop"
    /\ num_spc_dates_searched = NumSpcDates
    /\ LET sort_indices == ArgSort(file_dictionary.unix_times_sec)
       IN  file_dictionary' =
               [radar_file_names |->
                    TakeIndices(file_dictionary.radar_file_names, sort_indices),
                unix_times_sec |->
                    TakeIndices(file_dictionary.unix_times_sec, sort_indices)]
    /\ files_pc' = "returned"
    /\ UNCHANGED <<spc_date_file_names, start_time_unix_sec,
                   end_time_unix_sec, num_spc_dates_searched,
                   run_local_max_dict_by_time>>
    /\ UNCHANGED <<linkVars, dedupVars, trackVars, runVars, findVars,
                   reanalysisVars, joinVars>>

\* _link_local_maxima_in_time as a function of its arguments: the array that
\* LinkNoPreviousDict, LinkEarlyReturn or LinkLoops returns.
LinkLocalMaximaInTime(cur, prev, max_time, limit) ==
    IF prev = None THEN Full(Len(cur.x_coords_metres), -1)
    ELSE IF ReturnsEarly(Len(cur.x_coords_metres), Len(prev.x_coords_metres),
                         cur.unix_time_sec - prev.unix_time_sec, max_time)
    THEN Full(Len(cur.x_coords_metres), -1)
    ELSE ResolveConflicts(
             [i \in 1..Len(cur.x_coords_metres) |->
                 BestPrevIndex(cur, prev, i, limit)],
             BestPrevDistanceKeys(cur, prev), 0, Len(prev.x_coords_metres))

\* Arguments of run_tracking in the tracking run: valid ones; storms may
\* move 1500 m or 3000 m between two radar files five minutes apart.
TrackingRunArguments ==
    [min_echo_top_height_km_asl : {4},
     half_width_for_max_filter_pixels : {3},
     max_link_time_seconds : {300},
     max_link_distance_m_s01 : {5, 10},
     min_track_duration_seconds : {0}]

\* The maxima that lines 659-691 may find in a radar file: none, one at the
\* centre of the projection, or that one and a second one 0.01 deg north
\* and 0.02 deg east of it (2134 m away).
RunNumMaxima == {0, 1, 2}
RunFirstLatitude == 3500

\* local_max_dict_by_time[i] after line 691: the maxima of the file with
\* their projected coordinates and the valid time of the file.
RunLocalMaxDict(n, t) ==
    LET latlng == TimeStepDict(n, RunFirstLatitude, t, <<>>)
    IN  [latitudes_deg |-> latlng.latitudes_deg,
         longitudes_deg |-> latlng.longitudes_deg,
         x_coords_metres |-> MaxXCoordsMetres(latlng),
         y_coords_metres |-> MaxYCoordsMetres(latlng),
         unix_time_sec |-> t]

\* The snapshot before snapshot i (0-based) taken from the list two places
\* back.
SnapshotTwoBefore(dicts, i) ==
    IF i <= 1 THEN None ELSE dicts[i - 1]

\* previous_local_max_dict of lines 693-706 for the snapshot i (0-based):
\* None for the first one, the snapshot i - 1 for the others.
PreviousLocalMaxDict(dicts, i) ==
    IF i = 0 THEN None ELSE dicts[i]

\* Lines 633-653: the arguments pass the check, _find_input_radar_files has
\* returned and its times are taken.
RunTakeFileDictionary ==
    /\ run_pc = "call"
    /\ files_pc = "returned"
    /\ ArgumentsPassCheck(run_arguments)
    /\ unix_times_sec' = file_dictionary.unix_times_sec
    /\ run_pc' = "loop"
    /\ UNCHANGED <<run_arguments, num_radar_files_read>>
    /\ UNCHANGED <<linkVars, dedupVars, trackVars, findVars, reanalysisVars,
                   trackingRunVars, joinVars>>

\* One pass of the loop of lines 655-708: the maxima of radar file i are
\* found and linked with those of radar file i - 1.
RunLinkRadarFile ==
    /\ run_pc = "loop"
    /\ files_pc = "returned"
    /\ num_radar_files_read < Len(unix_times_sec)
    /\ \E n \in RunNumMaxima :
         LET i == num_radar_files_read
             this_dict == RunLocalMaxDict(n, unix_times_sec[i + 1])
             these_current_to_prev_indices ==
                 LinkLocalMaximaInTime(
                     this_dict,
                     PreviousLocalMaxDict(run_local_max_dict_by_time, i),
                     run_arguments.max_link_time_seconds,
                     run_arguments.max_link_distance_m_s01)
         IN  run_local_max_dict_by_time' =
                 Append(run_local_max_dict_by_time,
                        [latitudes_deg |-> this_dict.latitudes_deg,
                         longitudes_deg |-> this_dict.longitudes_deg,
                         x_coords_metres |-> this_dict.x_coords_metres,
                         y_coords_metres |-> this_dict.y_coords_metres,
                         unix_time_sec |-> this_dict.unix_time_sec,
                         radar_file_name |->
                             file_dictionary.radar_file_names[i + 1],
                         current_to_previous_indices |->
                             these_current_to_prev_indices])
    /\ num_radar_files_read' = num_radar_files_read + 1
    /\ UNCHANGED <<run_arguments, unix_times_sec, run_pc>>
    /\ UNCHANGED <<spc_date_file_names, start_time_unix_sec,
                   end_time_unix_sec, num_spc_dates_searched, file_dictionary,
                   files_pc>>
    /\ UNCHANGED <<linkVars, dedupVars, trackVars, findVars, reanalysisVars,
                   joinVars>>

\* Line 710: _local_maxima_to_storm_tracks is called with the snapshots.
RunCallLocalMaximaToStormTracks ==
    /\ run_pc = "loop"
    /\ files_pc = "returned"
    /\ num_radar_files_read = Len(unix_times_sec)
    /\ run_pc' = "tracks"
    /\ num_times' = Len(run_local_max_dict_by_time)
    /\ track_pc' = "loop"
    /\ UNCHANGED <<local_max_dict_by_time, prev_numeric_id_used,
                   prev_spc_date_string, storm_object_table,
                   min_duration_seconds, long_storm_object_table>>
    /\ UNCHANGED <<run_arguments, unix_times_sec, num_radar_files_read>>
    /\ UNCHANGED <<linkVars, dedupVars, findVars, reanalysisVars,
                   trackingRunVars, joinVars>>

\* A pass of the loop of _local_maxima_to_storm_tracks for the next snapshot
\* of the run.
ProcessLinkedTimeStep ==
    /\ run_pc = "tracks"
    /\ track_pc = "loop"
    /\ Len(local_max_dict_by_time) < num_times
    /\ HandleThisDict(
           run_local_max_dict_by_time[Len(local_max_dict_by_time) + 1])
    /\ UNCHANGED <<num_times, min_duration_seconds, long_storm_object_table>>
    /\ UNCHANGED <<linkVars, dedupVars, laterVars>>

\* Lines 713-715: the table is returned.  unix_times_sec[0] of line 714
\* raises IndexError if no radar file was found.
RunReturnTracks ==
    /\ run_pc = "tracks"
    /\ track_pc = "pruned"
    /\ run_pc' = IF Len(unix_times_sec) = 0 THEN "raised" ELSE "returned"
    /\ UNCHANGED <<run_arguments, unix_times_sec, num_radar_files_read>>
    /\ UNCHANGED <<linkVars, dedupVars, trackVars, findVars, reanalysisVars,
                   trackingRunVars, joinVars>>

\* State at the call of run_tracking (lines 593-606) with valid arguments.
TrackingRunInit ==
    /\ FilesInit
    /\ run_arguments \in TrackingRunArguments
    /\ unix_times_sec = <<>>
    /\ num_radar_files_read = 0
    /\ run_pc = "call"

TrackingRunNext ==
    \/ FilesRejectPeriod
    \/ FilesBeginSearch
    \/ FindRawFilesOneSpcDate
    \/ FilesReturnDictionary
    \/ RunTakeFileDictionary
    \/ RunLinkRadarFile
    \/ RunCallLocalMaximaToStormTracks
    \/ ProcessLinkedTimeStep
    \/ ReturnStormObjectTable
    \/ RemoveShortTracks
    \/ RunReturnTracks

InitTrackingRun ==
    /\ TrackingRunInit /\ LinkIdle /\ DedupIdle /\ TrackIdle /\ FindIdle
    /\ ReanalysisIdle /\ JoinIdle
SpecTrackingRun == InitTrackingRun /\ [][TrackingRunNext]_vars

(***************************************************************************)
(* Claims about the tracking run, checked under SpecTrackingRun.           *)
(***************************************************************************)

\* C28: every time step that _find_input_radar_files returns lies in the
\* requested period, start_time_unix_sec <= t <= end_time_unix_sec, for
\* any number of SPC dates in the period and any files found per date.
C28_TimesWithinPeriod ==
    files_pc = "returned" =>
        \A k \in DOMAIN file_dictionary.unix_times_sec :
            /\ start_time_unix_sec <= file_dictionary.unix_times_sec[k]
            /\ file_dictionary.unix_times_sec[k] <= end_time_unix_sec

\* The snapshots of the run so far, and the one that run_tracking has for
\* time step i (1-based) as the previous one.
RunTimeSteps == DOMAIN run_local_max_dict_by_time
SnapshotBefore(i) ==
    IF i = 1 THEN None ELSE run_local_max_dict_by_time[i - 1]

\* The list that _find_input_radar_files returns is in the order of the
\* times and every file name stands at the place of its time.
FilesSortedAndAligned ==
    /\ Len(file_dictionary.radar_file_names)
           = Len(file_dictionary.unix_times_sec)
    /\ \A k \in DOMAIN file_dictionary.unix_times_sec :
         /\ RawFileNameToTime(file_dictionary.radar_file_names[k])
                = file_dictionary.unix_times_sec[k]
         /\ k > 1 => file_dictionary.unix_times_sec[k - 1]
                         <= file_dictionary.unix_times_sec[k]

\* Time step i of the run is that of the i-th file, not earlier than the
\* one before, and its links are those of the linker for the snapshot and
\* the snapshot of time step i - 1: indices of maxima of that snapshot.
LinkedAgainstStepBefore(i) ==
    LET this_dict == run_local_max_dict_by_time[i]
        links == this_dict.current_to_previous_indices
    IN  /\ this_dict.unix_time_sec = file_dictionary.unix_times_sec[i]
        /\ this_dict.radar_file_name = file_dictionary.radar_file_names[i]
        /\ i > 1 => run_local_max_dict_by_time[i - 1].unix_time_sec
                        <= this_dict.unix_time_sec
        /\ links = LinkLocalMaximaInTime(
                       this_dict, SnapshotBefore(i),
                       run_arguments.max_link_time_seconds,
                       run_arguments.max_link_distance_m_s01)
        /\ Len(links) = Len(this_dict.latitudes_deg)
        /\ \A j \in DOMAIN links :
             /\ i = 1 => links[j] = -1
             /\ links[j] # -1 =>
                  /\ 0 <= links[j]
                  /\ links[j] < Len(run_local_max_dict_by_time[i - 1]
                                        .latitudes_deg)

\* C24: the tracking run processes the time steps in non-decreasing order of
\* valid time: the list that _find_input_radar_files hands to run_tracking
\* is sorted by time with the file names aligned to the times, every time
\* step after the first is linked against the time step just before it and
\* the first one against no snapshot.
C24_TimeStepsInTimeOrder ==
    /\ files_pc = "returned" => FilesSortedAndAligned
    /\ \A i \in RunTimeSteps : LinkedAgainstStepBefore(i)

\* A run over three radar files or more, found out of time order in their
\* directory, returned; a maximum of the third time step is linked.
C24_Witness ==
    /\ run_pc = "returned"
    /\ Len(run_local_max_dict_by_time) >= 3
    /\ \E d \in DOMAIN spc_date_file_names :
         /\ Len(spc_date_file_names[d]) = 2
         /\ RawFileNameToTime(spc_date_file_names[d][1])
                > RawFileNameToTime(spc_date_file_names[d][2])
    /\ \E j \in DOMAIN run_local_max_dict_by_time[3].latitudes_deg :
         run_local_max_dict_by_time[3].current_to_previous_indices[j] # -1

\* The storm ids of one handled time step are pairwise different.
DistinctIdsAtTimeStep(i) ==
    \A j, k \in DOMAIN local_max_dict_by_time[i].storm_ids :
        j # k => local_max_dict_by_time[i].storm_ids[j]
                     # local_max_dict_by_time[i].storm_ids[k]

\* No two rows of the table have the same storm id and the same valid time.
OneObjectPerTrackAndTime(table) ==
    \A r1, r2 \in DOMAIN table :
        (r1 # r2 /\ table[r1].unix_time_sec = table[r2].unix_time_sec)
            => table[r1].storm_id # table[r2].storm_id

\* C29: in the output of the linker followed by
\* _local_maxima_to_storm_tracks, for time steps in increasing time order
\* as run_tracking feeds them, the storm objects of one time step have
\* pairwise different storm ids: no track has two objects at one valid
\* time, in the snapshots, in the table and in the table without the short
\* tracks.
C29_DistinctIdsPerTimeStep ==
    run_pc \in {"tracks", "returned"} =>
        /\ \A i \in TimeSteps : DistinctIdsAtTimeStep(i)
        /\ OneObjectPerTrackAndTime(storm_object_table)
        /\ OneObjectPerTrackAndTime(long_storm_object_table)

\* The run returned; at one time step two maxima chose the same previous
\* maximum, one of them got the link and its id, the other a new id.
C29_Witness ==
    /\ run_pc = "returned"
    /\ \E i \in TimeSteps :
         /\ i > 1
         /\ Len(local_max_dict_by_time[i].storm_ids) = 2
         /\ Len(local_max_dict_by_time[i - 1].storm_ids) = 1
         /\ local_max_dict_by_time[i].current_to_previous_indices = <<0, -1>>
         /\ local_max_dict_by_time[i].storm_ids[1]
                = local_max_dict_by_time[i - 1].storm_ids[1]
         /\ BestPrevIndex(run_local_max_dict_by_time[i],
                          run_local_max_dict_by_time[i - 1], 2,
                          run_arguments.max_link_distance_m_s01) = 0

(***************************************************************************)
(* echo_top_tracking._join_tracks_between_periods.                         *)
(*                                                                         *)
(* echo_top_tracking.py is not in the repository snapshot; its unit test   *)
(* (test_join_tracks_between_periods) is.  The test calls the function     *)
(* with a projection, max_link_time_seconds and max_link_distance_m_s01,   *)
(* the arguments of the linker: the storm objects at the last time of the  *)
(* early table are the previous snapshot, those at the first time of the   *)
(* late table the current one, and a late track whose first object is      *)
(* linked takes the id of the early track.  Latitudes and longitudes are   *)
(* in hundredths of a degree, as for _remove_redundant_local_maxima.       *)
(***************************************************************************)

\* Rows of a table of storm objects at one valid time, in their order.
ObjectRowsAtTime(object_table, unix_time_sec) ==
    SelectSeq([k \in DOMAIN object_table |-> k],
              LAMBDA k : object_table[k].unix_time_sec = unix_time_sec)

\* Last valid time of the early table and first valid time of the late one.
LastTimeOf(object_table) ==
    SetMax({object_table[k].unix_time_sec : k \in DOMAIN object_table})
FirstTimeOf(object_table) ==
    SetMin({object_table[k].unix_time_sec : k \in DOMAIN object_table})

\* The storm objects of the given rows as a snapshot of the linker.
SnapshotOfRows(object_table, rows, unix_time_sec) ==
    [x_coords_metres |->
         [n \in DOMAIN rows |->
             ProjectLatLngToXY(object_table[rows[n]].centroid_lat_deg,
                               object_table[rows[n]].centroid_lng_deg).x],
     y_coords_metres |->
         [n \in DOMAIN rows |->
             ProjectLatLngToXY(object_table[rows[n]].centroid_lat_deg,
                               object_table[rows[n]].centroid_lng_deg).y],
     unix_time_sec |-> unix_time_sec]

\* For each storm object at the first late time, the 0-based position of
\* the storm object at the last early time that it is linked to, or -1.
LinksBetweenPeriods(early_table, late_table, max_time, limit) ==
    LinkLocalMaximaInTime(
        SnapshotOfRows(late_table,
                       ObjectRowsAtTime(late_table, FirstTimeOf(late_table)),
                       FirstTimeOf(late_table)),
        SnapshotOfRows(early_table,
                       ObjectRowsAtTime(early_table, LastTimeOf(early_table)),
                       LastTimeOf(early_table)),
        max_time, limit)

\* The id that a late track carries after the join: that of the early track
\* its first object is linked to, its own if there is no such track.
IdAfterJoin(early_table, late_table, links, late_track_id) ==
    LET late_rows == ObjectRowsAtTime(late_table, FirstTimeOf(late_table))
        early_rows == ObjectRowsAtTime(early_table, LastTimeOf(early_table))
        linked == {n \in DOMAIN late_rows :
                      /\ late_table[late_rows[n]].storm_id = late_track_id
                      /\ links[n] # -1}
    IN  IF linked = {} THEN late_track_id
        ELSE early_table[early_rows[links[SetMin(linked)] + 1]].storm_id

\* A relabelling of the linked storm objects alone: the later objects of
\* their tracks keep the late id.
RelabelFirstObjects(early_table, late_table, links) ==
    [k \in DOMAIN late_table |->
        IF late_table[k].unix_time_sec = FirstTimeOf(late_table)
        THEN [late_table[k] EXCEPT !.storm_id =
                 IdAfterJoin(early_table, late_table, links,
                             late_table[k].storm_id)]
        ELSE late_table[k]]

\* The late table with every object of a linked track relabelled.
RelabelLateTracks(early_table, late_table, links) ==
    [k \in DOMAIN late_table |->
        [late_table[k] EXCEPT !.storm_id =
            IdAfterJoin(early_table, late_table, links,
                        late_table[k].storm_id)]]

\* _join_tracks_between_periods: the late table is relabelled and returned.
JoinTracksBetweenPeriods ==
    /\ join_pc = "call"
    /\ joined_storm_object_table' =
           RelabelLateTracks(
               early_storm_object_table, late_storm_object_table,
               LinksBetweenPeriods(
                   early_storm_object_table, late_storm_object_table,
                   join_arguments.max_link_time_seconds,
                   join_arguments.max_link_distance_m_s01))
    /\ join_pc' = "returned"
    /\ UNCHANGED <<early_storm_object_table, late_storm_object_table,
                   join_arguments>>
    /\ UNCHANGED <<linkVars, dedupVars, trackVars, runVars, findVars,
                   reanalysisVars, trackingRunVars>>

\* Tables under check, after the tables of the unit test: two early tracks
\* "a" and "b" with objects at the times 0 and 300 (one of them or both),
\* two late tracks "c" and "d" with objects at 600 and 900.  The tracks
\* stand still; 0.01 deg of latitude is 1111 m.
JoinEarlyTimes == {<<0>>, <<300>>, <<0, 300>>}
JoinLateTimes == {<<600>>, <<900>>, <<600, 900>>}
JoinEarlyLatitudes == {3500, 3502}
JoinLateLatitudes == {3500, 3501, 3510}
JoinLongitude == 26500
\* MAX_LINK_TIME_SECONDS of the test and a shorter time; the speed limit
\* MAX_LINK_DISTANCE_M_S01 of the test and half of it.
JoinMaxLinkTimes == {200, 300}
JoinMaxLinkDistances == {5, 10}

\* The storm objects of a track that stands still.
StormObjectsOfTrack(storm_id, times, latitude) ==
    [n \in DOMAIN times |->
        StormObject(storm_id, times[n], latitude, JoinLongitude)]

\* A table of two tracks, ordered by time as the tables of the test.
TableOfTwoTracks(first_track, second_track) ==
    LET rows == first_track \o second_track
        Earlier(k, h) ==
            \/ rows[k].unix_time_sec < rows[h].unix_time_sec
            \/ rows[k].unix_time_sec = rows[h].unix_time_sec /\ k < h
    IN  [n \in DOMAIN rows |->
            rows[CHOOSE k \in DOMAIN rows :
                    Cardinality({h \in DOMAIN rows : Earlier(h, k)}) = n - 1]]

JoinInit ==
    /\ \E times_a, times_b \in JoinEarlyTimes,
          lat_a, lat_b \in JoinEarlyLatitudes :
         early_storm_object_table =
             TableOfTwoTracks(StormObjectsOfTrack("a", times_a, lat_a),
                              StormObjectsOfTrack("b", times_b, lat_b))
    /\ \E times_c, times_d \in JoinLateTimes,
          lat_c, lat_d \in JoinLateLatitudes :
         late_storm_object_table =
             TableOfTwoTracks(StormObjectsOfTrack("c", times_c, lat_c),
                              StormObjectsOfTrack("d", times_d, lat_d))
    /\ join_arguments \in
           [max_link_time_seconds : JoinMaxLinkTimes,
            max_link_distance_m_s01 : JoinMaxLinkDistances]
    /\ join_pc = "call"
    /\ joined_storm_object_table = <<>>

JoinNext == JoinTracksBetweenPeriods

InitJoin ==
    /\ JoinInit /\ LinkIdle /\ DedupIdle /\ TrackIdle /\ RunIdle /\ FindIdle
    /\ ReanalysisIdle /\ TrackingRunIdle
SpecJoin == InitJoin /\ [][JoinNext]_vars

(***************************************************************************)
(* Claim about _join_tracks_between_periods, checked under SpecJoin.       *)
(***************************************************************************)

\* Ids of the early tracks, and the rows of a track in a table.
EarlyStormIds == StormIdsIn(early_storm_object_table)
RowsOfTrack(object_table, storm_id) ==
    {k \in DOMAIN object_table : object_table[k].storm_id = storm_id}

\* Squared distance in metres between two storm objects.
ObjectDistSq(early_object, late_object) ==
    Square(ProjectLatLngToXY(late_object.centroid_lat_deg,
                             late_object.centroid_lng_deg).x
           - ProjectLatLngToXY(early_object.centroid_lat_deg,
                               early_object.centroid_lng_deg).x)
    + Square(ProjectLatLngToXY(late_object.centroid_lat_deg,
                               late_object.centroid_lng_deg).y
             - ProjectLatLngToXY(early_object.centroid_lat_deg,
                                 early_object.centroid_lng_deg).y)

\* Time between the last early and the first late storm objects.
TimeBetweenPeriods ==
    FirstTimeOf(late_storm_object_table) - LastTimeOf(early_storm_object_table)

\* The late object is the first of its track, the early one the last of
\* its track, at the times where the periods meet, and the late one is
\* within reach of the early one under the limits of the linker.
WithinReach(early_object, late_object) ==
    /\ early_object.unix_time_sec = LastTimeOf(early_storm_object_table)
    /\ late_object.unix_time_sec = FirstTimeOf(late_storm_object_table)
    /\ TimeBetweenPeriods <= join_arguments.max_link_time_seconds
    /\ ObjectDistSq(early_object, late_object) <=
           Square(join_arguments.max_link_distance_m_s01 * TimeBetweenPeriods)

\* The early tracks that the late track can be matched to.
EarlyTracksWithinReach(late_track_id) ==
    {early_storm_object_table[e].storm_id :
        e \in {x \in DOMAIN early_storm_object_table :
                  \E k \in RowsOfTrack(late_storm_object_table, late_track_id) :
                      WithinReach(early_storm_object_table[x],
                                  late_storm_object_table[k])}}

\* The id that the rows of a late track carry in the returned table.
JoinedIdsOfTrack(late_track_id) ==
    {joined_storm_object_table[k].storm_id :
        k \in RowsOfTrack(late_storm_object_table, late_track_id)}

\* What the returned table is, against the two tables given.
LateTableRelabelled ==
    join_pc = "returned" =>
        /\ DOMAIN joined_storm_object_table = DOMAIN late_storm_object_table
        /\ \A k \in DOMAIN late_storm_object_table :
             TimeAndPosition(joined_storm_object_table[k])
                 = TimeAndPosition(late_storm_object_table[k])
        /\ \A late_track_id \in StormIdsIn(late_storm_object_table) :
             /\ Cardinality(JoinedIdsOfTrack(late_track_id)) = 1
             /\ JoinedIdsOfTrack(late_track_id) \subseteq
                    {late_track_id} \cup EarlyTracksWithinReach(late_track_id)
             /\ \A other_id \in StormIdsIn(late_storm_object_table) :
                    other_id # late_track_id =>
                        JoinedIdsOfTrack(other_id)
                            # JoinedIdsOfTrack(late_track_id)
        /\ (\E late_track_id \in StormIdsIn(late_storm_object_table) :
                EarlyTracksWithinReach(late_track_id) # {})
               => \E k \in DOMAIN late_storm_object_table :
                      joined_storm_object_table[k].storm_id \in EarlyStormIds

\* C23: _join_tracks_between_periods relabels only the late table.  The
\* returned table has the rows of the late table with their times and
\* positions; all objects of a late track carry one id, either the track's
\* own or that of an early track whose last object, at the last early time,
\* is within max_link_time_seconds and within the link speed limit of the
\* track's object at the first late time; a late track with no such early
\* track keeps its id, no two late tracks take the id of one early track,
\* and if any late track has such an early track at least one is
\* relabelled.  The early table is as it was.
C23_OnlyLateTableRelabelled ==
    /\ []LateTableRelabelled
    /\ [][early_storm_object_table' = early_storm_object_table]_vars

\* The case of the unit test: the tracks have two objects each, "c" begins
\* where "b" ended and takes its id at both of its objects, "d" begins far
\* from both early tracks and keeps its id.
C23_Witness ==
    /\ join_pc = "returned"
    /\ Len(early_storm_object_table) = 4
    /\ Len(late_storm_object_table) = 4
    /\ join_arguments.max_link_time_seconds = 300
    /\ join_arguments.max_link_distance_m_s01 = 10
    /\ [k \in 1..4 |-> late_storm_object_table[k].storm_id]
           = <<"c", "d", "c", "d">>
    /\ [k \in 1..4 |-> joined_storm_object_table[k].storm_id]
           = <<"b", "d", "b", "d">>
    /\ EarlyTracksWithinReach("d") = {}

====
